---- MODULE Spec2Model ----
(***************************************************************************)
(* A model of staxing's assignment helper (staxing/assignment.py): the     *)
(* date-picker rotation, the period assignment, the homework problem       *)
(* resolver, the Tutor selection widget, the assignment menu, the four     *)
(* "add assignment" form workflows and the edit and remove dispatch; and   *)
(* of User.login (staxing/helper.py).                                      *)
(*                                                                         *)
(* The browser is the environment: the model keeps only the part of the    *)
(* page the helper reads or writes (the month shown by the date picker,    *)
(* the period rows, the exercise catalog, the form fields).                *)
(***************************************************************************)
EXTENDS Integers, Sequences, FiniteSets, TLC

(***************************************************************************)
(* Bounds of the model.                                                    *)
(***************************************************************************)
\* last calendar year the date picker, today and the target may be in
MaxYear == 2017

\* first calendar year of the model
Years == 2016 .. MaxYear

Months == 1 .. 12

\* a month of a year, as datetime.date(year, month, _) / the picker's header
YearMonths == [year : Years, month : Months]

\* latest wait attempt at which the forecast may first be visible
MaxLoad == 12

\* largest wait time, in seconds
MaxWait == 4

\* most change_wait_time calls by the test before answer_assessment
MaxChanges == 2

\* most contracts shown after a login
MaxTerms == 2

\* largest count the Tutor selection widget shows or is asked for
MaxTutor == 5

\* most calls of open_assignment_menu and link clicks in a row
MaxCalls == 4

(***************************************************************************)
(* Variables.                                                              *)
(***************************************************************************)
VARIABLES
    \* ---- adjust_date_picker -------------------------------------------
    dp_pc,        \* position in adjust_date_picker
    today,        \* datetime.date.today(), year and month
    new_date,     \* the requested date, year and month
    current,      \* the header text of the picker: <<month name, year>>
    current0,     \* the header text when the picker was opened
    month,        \* local variable month
    year,         \* local variable year
    dp_clicks     \* number of next/previous clicks issued so far

dp_vars == <<dp_pc, today, new_date, current, current0, month, year, dp_clicks>>

VARIABLES
    \* ---- assign_periods ----------------------------------------------
    ap_pc,        \* "call", "returned" or "ValueError"
    periods,      \* the periods argument: period name or "all" -> (open, close)
    form,         \* the period panel of the assignment form
    form0         \* the period panel before the call

ap_vars == <<ap_pc, periods, form, form0>>

VARIABLES
    \* ---- add_homework_problems ----------------------------------------
    hp_pc,         \* "call", "resolve", "done" or the exception raised
    problems,      \* the problems argument, a dict in insertion order
    book,          \* the exercises the page lists for each section of the book
    all_available, \* find_all_questions' result (its lists are mutable)
    scraped,       \* all_available as it was scraped
    hp_i,          \* position of "for section in problems"
    using,         \* the list using
    resolved,      \* what each key has appended to using
    clicks         \* how often each exercise's add control was clicked

hp_vars == <<hp_pc, problems, book, all_available, scraped, hp_i, using,
             resolved, clicks>>

VARIABLES
    \* ---- add_new_reading / homework / external / event -----------------
    wf_pc,        \* the step the workflow is about to do, "returned" or "raised"
    kind,         \* the workflow: reading, homework, external or event
    break_point,  \* the break_point argument
    status,       \* the status argument
    feedback,     \* the feedback argument (homework)
    menu_open,    \* whether the Add Assignment menu is open
    dialog,       \* whether the confirmation dialog shows up within the wait
    log           \* the controls clicked and fields typed into, in order

wf_vars == <<wf_pc, kind, break_point, status, feedback, menu_open, dialog, log>>

VARIABLES
    \* ---- open_assignment_menu, called time after time ------------------
    om_color,     \* background-color of button.sidebar-toggle
    om_hist       \* the calls and link clicks so far, each with what it did

om_vars == <<om_color, om_hist>>

VARIABLES
    \* ---- set_tutor_selections ------------------------------------------
    ts_pc,        \* "call", "loop" or "returned"
    ts_tutor,     \* problems['tutor']
    ts_current,   \* local variable current: the count the widget shows
    ts_change,    \* local variable change
    ts_clicks     \* clicks issued so far on each of the two controls

ts_vars == <<ts_pc, ts_tutor, ts_current, ts_change, ts_clicks>>

VARIABLES
    \* ---- Teacher.change_assignment / Teacher.delete_assignment ---------
    mg_pc,        \* "call", "lambda", "function", "body" or how the call ended
    mg_op,        \* "edit" or "remove"
    mg_kind,      \* the assignment argument
    mg_args,      \* the keys of the args dict
    mg_periods,   \* args['periods']: "None" (absent), "empty" or "dated"
    mg_page,      \* the calendar: whether it lists the title, shows the modal
    mg_target,    \* the key of self.edit / self.remove being called
    mg_fn,        \* the method being called or run
    mg_kwargs,    \* the keyword names of the call under way
    mg_log        \* what the browser has been asked to do

mg_vars == <<mg_pc, mg_op, mg_kind, mg_args, mg_periods, mg_page, mg_target, mg_fn,
             mg_kwargs, mg_log>>

VARIABLES
    \* ---- User.login ----------------------------------------------------
    lg_pc,        \* position in login, or how it ended
    lg_url,       \* url_address
    lg_width,     \* the window's width in pixels
    lg_collapsed, \* whether the small-window menu is collapsed
    lg_src,       \* the source of the page the login link leads to
    lg_reset,     \* whether the page after Login asks for a new password
    lg_terms,     \* contracts (terms of use, privacy policy) still to accept
    lg_log        \* what the browser has been asked to do

lg_vars == <<lg_pc, lg_url, lg_width, lg_collapsed, lg_src, lg_reset, lg_terms, lg_log>>

VARIABLES
    \* ---- User.logout ---------------------------------------------------
    lo_pc,        \* "call", the helper being run, or how logout ended
    lo_url,       \* which of 'tutor', 'accounts', 'exercises' the URL contains
    lo_width,     \* the window's width in pixels
    lo_page,      \* which controls of the page become visible
    lo_flow,      \* the logout helper that was entered
    lo_log        \* what the browser has been asked to do

lo_vars == <<lo_pc, lo_url, lo_width, lo_page, lo_flow, lo_log>>

VARIABLES
    \* ---- Teacher.rotate_calendar ---------------------------------------
    rc_pc,        \* "call", "while1" .. "while4" or "done"
    rc_header,    \* the text of div.calendar-header-label: <<month name, year>>
    rc_header0,   \* the header text before the call
    rc_target,    \* target_date, year and month
    cal_month,    \* local variable cal_month
    cal_year,     \* local variable cal_year
    rc_clicks     \* clicks so far on fa-caret-right and fa-caret-left

rc_vars == <<rc_pc, rc_header, rc_header0, rc_target, cal_month, cal_year, rc_clicks>>

VARIABLES
    \* ---- Helper.change_wait_time and Student.answer_assessment ---------
    waits,        \* self.wait_time, the driver's implicit wait, self.wait's timeout
    wt_arg,       \* the argument of the latest change_wait_time call by the test
    wt_result,    \* how that call ended: "returned" or "ValueError"
    wt_last,      \* the wait time of the constructor or of the last call that returned
    wt_calls,     \* number of change_wait_time calls by the test so far
    aa_pc,        \* position in answer_assessment
    aa_wt,        \* local variable wt
    aa_waits0,    \* waits when answer_assessment was called
    aa_page,      \* the assessment page: textarea, typing, answers
    aa_log        \* what answer_assessment has asked of the browser

wa_vars == <<waits, wt_arg, wt_result, wt_last, wt_calls, aa_pc, aa_wt, aa_waits0,
             aa_page, aa_log>>

VARIABLES
    \* ---- Teacher.goto_performance_forecast -----------------------------
    pf_pc,        \* position in goto_performance_forecast
    timer,        \* local variable timer
    pf_attempts,  \* number of self.wait.until calls for the guide container
    pf_page       \* the page: courses URL, menu link, when the forecast shows

pf_vars == <<pf_pc, timer, pf_attempts, pf_page>>

vars == <<dp_vars, ap_vars, hp_vars, wf_vars, om_vars, ts_vars, mg_vars, lg_vars, lo_vars,
          rc_vars, wa_vars, pf_vars>>

(***************************************************************************)
(* adjust_date_picker (assignment.py 246-291)                              *)
(***************************************************************************)
\* calendar.month_name without its empty entry 0
month_name == <<"January", "February", "March", "April", "May", "June",
                "July", "August", "September", "October", "November",
                "December">>

\* months = {v: k for k, v in enumerate(calendar.month_name)}
months(name) == CHOOSE k \in Months : month_name[k] = name

\* the header text the picker renders for a month of a year
HeaderText(ym) == <<month_name[ym.month], ym.year>>

\* month, year = current.text.split(' '); month = months[month]; year = int(year)
ReadHeader(text) == [month |-> months(text[1]), year |-> text[2]]

\* the widget's reaction to a click on react-datepicker__navigation--next
ClickNextMonth(text) ==
    LET ym == ReadHeader(text)
    IN  IF ym.month = 12 THEN HeaderText([year |-> ym.year + 1, month |-> 1])
        ELSE HeaderText([year |-> ym.year, month |-> ym.month + 1])

\* the widget's reaction to a click on react-datepicker__navigation--previous
ClickPreviousMonth(text) ==
    LET ym == ReadHeader(text)
    IN  IF ym.month = 1 THEN HeaderText([year |-> ym.year - 1, month |-> 12])
        ELSE HeaderText([year |-> ym.year, month |-> ym.month - 1])

\* if today.year == new_date.year and today.month == new_date.month: return
IsThisMonth(t, n) == t.year = n.year /\ t.month = n.month

ForwardCond_OffByOne(y, m, n) == y <= n.year /\ m <= n.month

\* while year <= new_date.year and month < new_date.month
ForwardCond(y, m, n) == y <= n.year /\ m < n.month

\* while year >= new_date.year and month > new_date.month
BackwardCond(y, m, n) == y >= n.year /\ m > n.month

\* months since year 0, to measure the distance between two months
MonthOrdinal(ym) == 12 * ym.year + ym.month

Abs(x) == IF x < 0 THEN -x ELSE x

\* absolute number of months between two months
MonthDelta(a, b) == Abs(MonthOrdinal(a) - MonthOrdinal(b))

dp_Init ==
    /\ dp_pc = "open"
    /\ today \in YearMonths
    /\ new_date \in YearMonths
    /\ current0 \in {HeaderText(ym) : ym \in YearMonths}
    /\ current = current0
    /\ month = 0
    /\ year = 0
    /\ dp_clicks = 0

\* target.click(); the early return; the first read of the header
dp_Open ==
    /\ dp_pc = "open"
    /\ IF IsThisMonth(today, new_date)
       THEN /\ dp_pc' = "done"
            /\ UNCHANGED <<month, year>>
       ELSE /\ dp_pc' = "forward"
            /\ month' = ReadHeader(current).month
            /\ year' = ReadHeader(current).year
    /\ UNCHANGED <<today, new_date, current, current0, dp_clicks>>

\* one iteration of the first while loop
dp_Next ==
    /\ dp_pc = "forward"
    /\ ForwardCond(year, month, new_date)
    /\ current' = ClickNextMonth(current)
    /\ month' = ReadHeader(current').month
    /\ year' = ReadHeader(current').year
    /\ dp_clicks' = dp_clicks + 1
    /\ UNCHANGED <<dp_pc, today, new_date, current0>>

\* the first while loop ends
dp_NextDone ==
    /\ dp_pc = "forward"
    /\ ~ForwardCond(year, month, new_date)
    /\ dp_pc' = "backward"
    /\ UNCHANGED <<today, new_date, current, current0, month, year, dp_clicks>>

\* one iteration of the second while loop
dp_Previous ==
    /\ dp_pc = "backward"
    /\ BackwardCond(year, month, new_date)
    /\ current' = ClickPreviousMonth(current)
    /\ month' = ReadHeader(current').month
    /\ year' = ReadHeader(current').year
    /\ dp_clicks' = dp_clicks + 1
    /\ UNCHANGED <<dp_pc, today, new_date, current0>>

\* the second while loop ends and adjust_date_picker returns
dp_Return ==
    /\ dp_pc = "backward"
    /\ ~BackwardCond(year, month, new_date)
    /\ dp_pc' = "done"
    /\ UNCHANGED <<today, new_date, current, current0, month, year, dp_clicks>>

\* the whole of the two loops, as assign_date sees it: the header once the
\* first loop has ended
RECURSIVE RotateForward(_, _)
RotateForward(text, n) ==
    IF ForwardCond(ReadHeader(text).year, ReadHeader(text).month, n)
    THEN RotateForward(ClickNextMonth(text), n)
    ELSE text

\* the header once the second loop has ended
RECURSIVE RotateBackward(_, _)
RotateBackward(text, n) ==
    IF BackwardCond(ReadHeader(text).year, ReadHeader(text).month, n)
    THEN RotateBackward(ClickPreviousMonth(text), n)
    ELSE text

\* the header adjust_date_picker leaves, called with the picker showing text
adjust_date_picker(t, text, n) ==
    IF IsThisMonth(t, n) THEN text
    ELSE RotateBackward(RotateForward(text, n), n)

(***************************************************************************)
(* assign_time, assign_date, assign_periods (assignment.py 238-244,        *)
(* 293-398)                                                                *)
(***************************************************************************)
\* most period rows of a form, and most keys of a periods mapping
MaxRows == 2

MaxPeriodKeys == 2

\* labels of period rows and names a caller may use
PeriodNames == {"1st", "2nd", "3rd"}

\* a field nothing has been typed into or picked for
Unset == [written |-> FALSE]

\* a field holding what was picked or typed
Written(value) == [written |-> TRUE, value |-> value]

\* 'MM/DD/YYYY' as date.split('/') sees it
OpenDay == <<"12", "28", "2016">>

DueDay == <<"2", "17", "2017">>

\* a time string, character by character
OpenTime == <<"8", ":", "0", "0", "a">>

DueTime == <<"8", ":", "0", "0", " ", "p", "m">>

\* int() of the decimal strings a date is made of
int(str) ==
    CASE str = "2" -> 2 [] str = "12" -> 12 [] str = "17" -> 17
      [] str = "28" -> 28 [] str = "2016" -> 2016 [] str = "2017" -> 2017

\* a side of a period's value: a bare date string or a (date, time) tuple
Str(d) == [type |-> "str", date |-> d]

Tuple(d, t) == [type |-> "tuple", date |-> d, time |-> t]

\* isinstance(x, tuple)
IsTuple(x) == x.type = "tuple"

\* the (open, close) values the model draws from
PeriodValues ==
    { <<o, c>> : o \in {Str(OpenDay), Tuple(OpenDay, OpenTime), Tuple(OpenDay, <<>>)},
                 c \in {Str(DueDay), Tuple(DueDay, DueTime)} }

\* the periods mappings the model draws from
PeriodSpecs ==
    UNION { [ks -> PeriodValues] :
            ks \in {k \in SUBSET (PeriodNames \cup {"all"}) : Cardinality(k) <= MaxPeriodKeys} }

Range(seq) == {seq[i] : i \in DOMAIN seq}

Distinct(seq) == Cardinality(Range(seq)) = Len(seq)

\* sequences of distinct period labels: the rows of a form, in page order
RowSeqs ==
    {r \in UNION {[1 .. n -> PeriodNames] : n \in 0 .. MaxRows} : Distinct(r)}

\* the month the picker of a date field shows when it is opened
SampleMonths == {[year |-> 2016, month |-> 12], [year |-> 2017, month |-> 2]}

\* the period panel before assign_periods: rows, the state of each row's
\* checkbox, untouched date and time fields
FormsOf(r) ==
    { [ rows |-> r, checked |-> c, radio |-> "none", today |-> t, header |-> HeaderText(h),
        open_date |-> [k \in Range(r) \cup {"all"} |-> Unset],
        due_date  |-> [k \in Range(r) \cup {"all"} |-> Unset],
        open_time |-> [k \in Range(r) \cup {"all"} |-> Unset],
        due_time  |-> [k \in Range(r) \cup {"all"} |-> Unset] ] :
      c \in SUBSET Range(r), t \in SampleMonths, h \in SampleMonths }

Forms == UNION {FormsOf(r) : r \in RowSeqs}

\* string = str.replace(string, ':', ''), then ' ', then 'm'
modify_time(time) ==
    LET string1 == SelectSeq(time, LAMBDA ch : ch # ":")
        string2 == SelectSeq(string1, LAMBDA ch : ch # " ")
    IN  SelectSeq(string2, LAMBDA ch : ch # "m")

\* element.clear(); element.send_keys(char) for each char of modify_time(time)
assign_time(f, time, row, target) ==
    IF target = "due"
    THEN [f EXCEPT !.due_time[row] = Written(modify_time(time))]
    ELSE [f EXCEPT !.open_time[row] = Written(modify_time(time))]

\* the day clicked in the month the picker shows after adjust_date_picker
assign_date(f, date, row, target) ==
    LET change == [year |-> int(date[3]), month |-> int(date[1]), day |-> int(date[2])]
        shown  == ReadHeader(adjust_date_picker(f.today, f.header, change))
        picked == [year |-> shown.year, month |-> shown.month, day |-> change.day]
    IN  IF target = "due"
        THEN [f EXCEPT !.due_date[row] = Written(picked)]
        ELSE [f EXCEPT !.open_date[row] = Written(picked)]

\* options[period].click()
ClickPeriod(f, row) ==
    [f EXCEPT !.checked = IF row \in @ THEN @ \ {row} ELSE @ \cup {row}]

\* opens_on, closes_on = value; a tuple side is split into date and time
opens_on(value) == value[1].date

closes_on(value) == value[2].date

\* opens_at / closes_at: None unless the side is a tuple
None == <<"None">>

opens_at(value) == IF IsTuple(value[1]) THEN value[1].time ELSE None

closes_at(value) == IF IsTuple(value[2]) THEN value[2].time ELSE None

Truthy_Always(time) == TRUE

\* the truth value of "if opens_at:": None and '' are false
Truthy(time) == time # None /\ time # <<>>

\* the 'all' branch: the collective panel
assign_all(f, ps) ==
    LET f1 == [f EXCEPT !.radio = "hide-periods-radio"]
        f2 == assign_date(f1, opens_on(ps["all"]), "all", "open")
        f3 == assign_date(f2, closes_on(ps["all"]), "all", "due")
        f4 == IF Truthy(opens_at(ps["all"]))
              THEN assign_time(f3, opens_at(ps["all"]), "all", "open") ELSE f3
    IN  IF Truthy(closes_at(ps["all"]))
        THEN assign_time(f4, closes_at(ps["all"]), "all", "due") ELSE f4

deactivate_row_Keep(f, row) == f

\* the body of "for period in options" for a row that is no key of periods
deactivate_row(f, row) ==
    IF row \in f.checked THEN ClickPeriod(f, row) ELSE f

\* the body of "for period in options" for a row that is a key of periods
activate_row(f, row, value) ==
    LET f1 == IF row \notin f.checked THEN ClickPeriod(f, row) ELSE f
        f2 == assign_date(f1, closes_on(value), row, "due")
        f3 == assign_date(f2, opens_on(value), row, "open")
        f4 == IF Truthy(closes_at(value))
              THEN assign_time(f3, closes_at(value), row, "due") ELSE f3
    IN  IF Truthy(opens_at(value))
        THEN assign_time(f4, opens_at(value), row, "open") ELSE f4

\* for period in options: from row i on, with the rows before it done
RECURSIVE assign_rows(_, _, _, _)
assign_rows(f, ps, i, period_match) ==
    IF i > Len(f.rows) THEN [form |-> f, period_match |-> period_match]
    ELSE LET row == f.rows[i]
         IN  IF row \notin DOMAIN ps
             THEN assign_rows(deactivate_row(f, row), ps, i + 1, period_match)
             ELSE assign_rows(activate_row(f, row, ps[row]), ps, i + 1, TRUE)

\* if not period_match: raise ValueError('No periods matched')
RaisesNoMatch(period_match) == ~period_match

assign_periods_IgnoreAll(f, ps) ==
    LET done == assign_rows([f EXCEPT !.radio = "show-periods-radio"], ps, 1, FALSE)
    IN  [form |-> done.form,
         pc |-> IF RaisesNoMatch(done.period_match) THEN "ValueError" ELSE "returned"]

\* assign_periods: the form it leaves and how it ends
assign_periods(f, ps) ==
    IF "all" \in DOMAIN ps
    THEN [form |-> assign_all(f, ps), pc |-> "returned"]
    ELSE LET done == assign_rows([f EXCEPT !.radio = "show-periods-radio"], ps, 1, FALSE)
         IN  [form |-> done.form,
              pc |-> IF RaisesNoMatch(done.period_match) THEN "ValueError" ELSE "returned"]

\* no call of assign_periods is under way
ap_Idle ==
    /\ ap_pc = "idle"
    /\ periods = <<>>
    /\ form = <<>>
    /\ form0 = <<>>

ap_Init ==
    /\ ap_pc = "call"
    /\ periods \in PeriodSpecs
    /\ form \in Forms
    /\ form0 = form

\* assign_periods(driver, periods)
ap_Call ==
    /\ ap_pc = "call"
    /\ form' = assign_periods(form, periods).form
    /\ ap_pc' = assign_periods(form, periods).pc
    /\ UNCHANGED <<periods, form0>>

\* no call of adjust_date_picker is stepped through
dp_Idle ==
    /\ dp_pc = "idle"
    /\ today = <<>>
    /\ new_date = <<>>
    /\ current = <<>>
    /\ current0 = <<>>
    /\ month = 0
    /\ year = 0
    /\ dp_clicks = 0

(***************************************************************************)
(* find_all_questions, get_chapter_list, add_homework_problems             *)
(* (assignment.py 558-601, 627-705)                                        *)
(***************************************************************************)
\* most exercises of the book, and most keys of a problems mapping
MaxExercises == 3

MaxKeys == 2

\* exercise IDs
ExerciseIds == 1 .. MaxExercises

\* the sections of the book, in page order
Sections == <<"1.1", "1.2", "2.1">>

\* keys of a problems mapping: a section or 'ch' + chapter number
ProblemKeys == {"1.1", "2.1", "ch1"}

\* 'ch' in section
IsChapterKey(key) == key \in {"ch1", "ch2"}

\* int(chapter_id[2:])
ChapterOfKey(key) == CASE key = "ch1" -> 1 [] key = "ch2" -> 2

\* int(section.split('.')[0])
ChapterOfSection(section) ==
    CASE section \in {"1.1", "1.2"} -> 1 [] section = "2.1" -> 2

\* the values of a problems mapping
All == [type |-> "str", v |-> "all"]

IntValue(n) == [type |-> "int", v |-> n]

TupleValue(low, high) == [type |-> "tuple", low |-> low, high |-> high]

ListValue(ids) == [type |-> "list", v |-> ids]

ProblemValues ==
    {All, IntValue(1), IntValue(2), TupleValue(1, 2), ListValue(<<1>>), ListValue(<<MaxExercises, 1>>)}

\* a problems mapping: distinct keys in insertion order, each with a value
ProblemSpecs ==
    UNION { {p \in [1 .. n -> [key : ProblemKeys, value : ProblemValues]] :
               \A i, j \in 1 .. n : p[i].key = p[j].key => i = j} :
            n \in 1 .. MaxKeys }

\* the ascending sequence of a set of exercise IDs
RECURSIVE Ascending(_)
Ascending(ids) ==
    IF ids = {} THEN <<>>
    ELSE LET least == CHOOSE x \in ids : \A y \in ids : x <= y
         IN  <<least>> \o Ascending(ids \ {least})

\* the books of the model: every exercise is listed under one section or is
\* not in the book (slot Len(Sections) + 1), exercises in page order
Books ==
    { [i \in DOMAIN Sections |-> Ascending({e \in ExerciseIds : slot[e] = i})] :
      slot \in {f \in [ExerciseIds -> 1 .. Len(Sections) + 1] :
                  \A a, b \in ExerciseIds : a <= b => f[a] <= f[b]} }

SectionIndex(section) == CHOOSE i \in DOMAIN Sections : Sections[i] = section

\* select_sections: the sections whose exercises the page then lists
SelectedSections(ps) ==
    { sec \in Range(Sections) :
        \E i \in DOMAIN ps :
            IF IsChapterKey(ps[i].key)
            THEN ChapterOfSection(sec) = ChapterOfKey(ps[i].key)
            ELSE sec = ps[i].key }

\* the text of an exercise's ID span
IdSpan(id) == <<"ID:", id>>

\* question = q.text.split(' ')[1]
QuestionOf(text) == text[2]

\* find_all_questions: section label -> the IDs listed under it
find_all_questions(b, ps) ==
    [sec \in SelectedSections(ps) |->
        [k \in DOMAIN b[SectionIndex(sec)] |->
            QuestionOf(IdSpan(b[SectionIndex(sec)][k]))]]

\* get_chapter_list: the lists of the chapter's sections, one after another
RECURSIVE ChapterListFrom(_, _, _)
ChapterListFrom(cat, chapter, i) ==
    IF i > Len(Sections) THEN <<>>
    ELSE (IF Sections[i] \in DOMAIN cat /\ ChapterOfSection(Sections[i]) = chapter
          THEN cat[Sections[i]] ELSE <<>>) \o ChapterListFrom(cat, chapter, i + 1)

get_chapter_list(cat, chapter_id) ==
    ChapterListFrom(cat, ChapterOfKey(chapter_id), 1)

\* available = get_chapter_list(...) if 'ch' in section else all_available[section]
Available(cat, key) ==
    IF IsChapterKey(key) THEN get_chapter_list(cat, key) ELSE cat[key]

\* the IDs listed anywhere in a catalog
IdsOf(cat) == UNION {Range(cat[sec]) : sec \in DOMAIN cat}

\* a list without the entries at the given positions
RECURSIVE Without(_, _, _)
Without(list, positions, i) ==
    IF i > Len(list) THEN <<>>
    ELSE (IF i \in positions THEN <<>> ELSE <<list[i]>>) \o Without(list, positions, i + 1)

\* available.remove(available[ex]) for each pick: what the catalog is left with
AfterRemove(cat, key, positions) ==
    [cat EXCEPT ![key] = Without(@, positions, 1)]

\* the tuple branch works on all_available[section] itself, but on a fresh
\* list for a chapter key
AfterPicks(cat, key, positions) ==
    IF IsChapterKey(key) THEN cat ELSE AfterRemove(cat, key, positions)

\* ordered picks of total distinct positions of a list
Picks(list, total) ==
    {p \in [1 .. total -> DOMAIN list] : \A i, j \in 1 .. total : p[i] = p[j] => i = j}

ListMatches_AnyMember(cat, ex) == <<ex>>

\* for section in all_available: if ex in all_available[section]: using.append(ex)
RECURSIVE ListMatchesFrom(_, _, _)
ListMatchesFrom(cat, ex, i) ==
    IF i > Len(Sections) THEN <<>>
    ELSE (IF Sections[i] \in DOMAIN cat /\ ex \in Range(cat[Sections[i]])
          THEN <<ex>> ELSE <<>>) \o ListMatchesFrom(cat, ex, i + 1)

ListMatches(cat, ex) == ListMatchesFrom(cat, ex, 1)

\* for ex in problems[section]: ...
RECURSIVE ListBranch(_, _, _)
ListBranch(cat, ids, i) ==
    IF i > Len(ids) THEN <<>>
    ELSE ListMatches(cat, ids[i]) \o ListBranch(cat, ids, i + 1)

\* for ex in available: using.append(ex)
AllBranch(available) == available

\* for position in range(n): using.append(available[position])
IntBranch(available, n) == SubSeq(available, 1, n)

\* how many times an exercise occurs in using
Occurrences(list, ex) == Cardinality({i \in DOMAIN list : list[i] = ex})

ClickCount_EveryEntry(list, ex) == Occurrences(list, ex)

\* for exercise in set(using): one click on the exercise's add control
ClickCount(list, ex) == IF ex \in Range(list) THEN 1 ELSE 0

hp_Idle ==
    /\ hp_pc = "idle"
    /\ problems = <<>>
    /\ book = <<>>
    /\ all_available = <<>>
    /\ scraped = <<>>
    /\ hp_i = 0
    /\ using = <<>>
    /\ resolved = <<>>
    /\ clicks = <<>>

hp_Init ==
    /\ hp_pc = "call"
    /\ problems \in ProblemSpecs
    /\ book \in Books
    /\ all_available = <<>>
    /\ scraped = <<>>
    /\ hp_i = 0
    /\ using = <<>>
    /\ resolved = [i \in DOMAIN problems |-> <<>>]
    /\ clicks = [e \in ExerciseIds |-> 0]

\* problems-select, select_sections, show problems, find_all_questions
hp_Scrape ==
    /\ hp_pc = "call"
    /\ all_available' = find_all_questions(book, problems)
    /\ scraped' = all_available'
    /\ hp_i' = 1
    /\ hp_pc' = "resolve"
    /\ UNCHANGED <<problems, book, using, resolved, clicks>>

\* the loop body for the key at hp_i, by the branch it takes
hp_Branch(type) ==
    /\ hp_pc = "resolve"
    /\ hp_i <= Len(problems)
    /\ problems[hp_i].value.type = type

hp_Append(list) ==
    /\ using' = using \o list
    /\ resolved' = [resolved EXCEPT ![hp_i] = list]
    /\ hp_i' = hp_i + 1

\* elif problems[section] == 'all'
hp_All ==
    /\ hp_Branch("str")
    /\ hp_Append(AllBranch(Available(all_available, problems[hp_i].key)))
    /\ UNCHANGED <<hp_pc, problems, book, all_available, scraped, clicks>>

\* elif type(problems[section]) == tuple
hp_Tuple ==
    /\ hp_Branch("tuple")
    /\ LET key == problems[hp_i].key
           available == Available(all_available, key)
       IN  \E total \in problems[hp_i].value.low .. problems[hp_i].value.high :
             IF total > Len(available)
             THEN \* random.randint(0, -1) once available is empty
                  /\ hp_pc' = "ValueError"
                  /\ UNCHANGED <<all_available, hp_i, using, resolved>>
             ELSE \E p \in Picks(available, total) :
                    /\ hp_Append([j \in 1 .. total |-> available[p[j]]])
                    /\ all_available' = AfterPicks(all_available, key, Range(p))
                    /\ UNCHANGED hp_pc
    /\ UNCHANGED <<problems, book, scraped, clicks>>

\* elif type(problems[section]) == int
hp_Int ==
    /\ hp_Branch("int")
    /\ LET available == Available(all_available, problems[hp_i].key)
           n == problems[hp_i].value.v
       IN  IF n > Len(available)
           THEN \* available[position] past the end of the list
                /\ hp_pc' = "IndexError"
                /\ UNCHANGED <<hp_i, using, resolved>>
           ELSE /\ hp_Append(IntBranch(available, n))
                /\ UNCHANGED hp_pc
    /\ UNCHANGED <<problems, book, all_available, scraped, clicks>>

\* elif type(problems[section]) == list
hp_List ==
    /\ hp_Branch("list")
    /\ hp_Append(ListBranch(all_available, problems[hp_i].value.v, 1))
    /\ UNCHANGED <<hp_pc, problems, book, all_available, scraped, clicks>>

\* for exercise in set(using): click its add control; then click Next
hp_AddExercises ==
    /\ hp_pc = "resolve"
    /\ hp_i > Len(problems)
    /\ clicks' = [e \in ExerciseIds |-> ClickCount(using, e)]
    /\ hp_pc' = "done"
    /\ UNCHANGED <<problems, book, all_available, scraped, hp_i, using, resolved>>

(***************************************************************************)
(* set_tutor_selections (assignment.py 603-625)                            *)
(***************************************************************************)
\* the element bound to the local variable increase
increase == "button -move-exercise-down"

\* the element bound to the local variable decrease
decrease == "button -move-exercise-up"

\* no call of set_tutor_selections is under way
ts_Idle ==
    /\ ts_pc = "idle"
    /\ ts_tutor = 0
    /\ ts_current = 0
    /\ ts_change = 0
    /\ ts_clicks = <<>>

\* add_homework_problems reaches the key 'tutor'
ts_Init ==
    /\ ts_pc = "call"
    /\ ts_tutor \in 0 .. MaxTutor
    /\ ts_current \in 0 .. MaxTutor
    /\ ts_change = 0
    /\ ts_clicks = [c \in {increase, decrease} |-> 0]

\* current = int(tutor_picks.text); change = int(problems['tutor']) - current
ts_Read ==
    /\ ts_pc = "call"
    /\ ts_change' = ts_tutor - ts_current
    /\ ts_pc' = IF ts_change' # 0 THEN "loop" ELSE "returned"
    /\ UNCHANGED <<ts_tutor, ts_current, ts_clicks>>

\* while change < 0: change += 1; increase.click()
ClickWhenNegative == increase

\* while change > 0: change -= 1; decrease.click()
ClickWhenPositive == decrease

ts_LoopNegative ==
    /\ ts_pc = "loop"
    /\ ts_change < 0
    /\ ts_change' = ts_change + 1
    /\ ts_clicks' = [ts_clicks EXCEPT ![ClickWhenNegative] = @ + 1]
    /\ UNCHANGED <<ts_pc, ts_tutor, ts_current>>

ts_LoopPositive ==
    /\ ts_pc = "loop"
    /\ ts_change > 0
    /\ ts_change' = ts_change - 1
    /\ ts_clicks' = [ts_clicks EXCEPT ![ClickWhenPositive] = @ + 1]
    /\ UNCHANGED <<ts_pc, ts_tutor, ts_current>>

\* both loops are over
ts_Return ==
    /\ ts_pc = "loop"
    /\ ts_change = 0
    /\ ts_pc' = "returned"
    /\ UNCHANGED <<ts_tutor, ts_current, ts_change, ts_clicks>>

(***************************************************************************)
(* open_assignment_menu, select_status and the four add workflows          *)
(* (assignment.py 26-47, 224-236, 400-443, 485-556, 707-862)               *)
(***************************************************************************)
READING == "reading"

HOMEWORK == "homework"

EXTERNAL == "external"

EVENT == "event"

BEFORE_TITLE == "title"

BEFORE_DESCRIPTION == "description"

BEFORE_PERIOD == "period"

BEFORE_SECTION_SELECT == "section"

BEFORE_READING_SELECT == "reading"

BEFORE_EXERCISE_SELECT == "exercise"

BEFORE_URL == "url"

BEFORE_STATUS_SELECT == "status"

PUBLISH == "publish"

CANCEL == "cancel"

DRAFT == "draft"

DELETE == "delete"

Kinds == {READING, HOMEWORK, EXTERNAL, EVENT}

\* break_point=None
NoBreak == "None"

BreakPoints ==
    {NoBreak, BEFORE_TITLE, BEFORE_DESCRIPTION, BEFORE_PERIOD, BEFORE_SECTION_SELECT,
     BEFORE_READING_SELECT, BEFORE_EXERCISE_SELECT, BEFORE_URL, BEFORE_STATUS_SELECT}

Statuses == {PUBLISH, CANCEL, DRAFT, DELETE}

\* the link open_assignment_menu is followed by
AddLink(k) ==
    CASE k = READING -> "Add Reading" [] k = HOMEWORK -> "Add Homework"
      [] k = EXTERNAL -> "Add External Assignment" [] k = EVENT -> "Add Event"

open_assignment_menu_Always(open) == <<"sidebar-toggle">>

\* open_assignment_menu: the toggle is clicked when its background is not gray
open_assignment_menu(open) == IF ~open THEN <<"sidebar-toggle">> ELSE <<>>

\* ---- the sidebar toggle over several calls ------------------------------
\* the background of the toggle of an open menu
Gray == "rgba(153, 153, 153, 1)"

\* backgrounds the browser may report for the toggle
Colors == {Gray, "RGBA(153, 153, 153, 1)", "rgba(255, 255, 255, 1)", "rgba(0, 0, 0, 0)"}

\* color.lower()
lower(color) == IF color = "RGBA(153, 153, 153, 1)" THEN Gray ELSE color

\* color.lower() == 'rgba(153, 153, 153, 1)'
IsGray(color) == lower(color) = Gray

\* assignment_menu.click(): the page opens a closed menu and closes an open
\* one; the backgrounds the toggle may then have
ToggleClick(color) ==
    IF IsGray(color) THEN {c \in Colors : ~IsGray(c)} ELSE {c \in Colors : IsGray(c)}

\* no call of open_assignment_menu is recorded
om_Idle ==
    /\ om_color = "none"
    /\ om_hist = <<>>

om_Init ==
    /\ om_color \in Colors
    /\ om_hist = <<>>

\* self.open_assignment_menu(driver)
om_Call ==
    /\ Len(om_hist) < MaxCalls
    /\ LET pressed == open_assignment_menu(IsGray(om_color))
       IN  /\ om_color' \in IF pressed # <<>> THEN ToggleClick(om_color) ELSE {om_color}
           /\ om_hist' = Append(om_hist, [op |-> "open_assignment_menu",
                                          clicked |-> pressed # <<>>,
                                          before |-> om_color, after |-> om_color'])

\* driver.find_element(By.LINK_TEXT, 'Add ...').click(): the page that
\* follows shows the menu open or closed
om_FollowLink ==
    /\ Len(om_hist) < MaxCalls
    /\ om_color' \in Colors
    /\ om_hist' = Append(om_hist, [op |-> "link", clicked |-> FALSE,
                                   before |-> om_color, after |-> om_color'])

Halts_Never(bp, tag) == FALSE

\* if break_point == Assignment.BEFORE_...: return
Halts(bp, tag) == bp = tag

select_status_SaveOnPublish(st, shown) ==
    CASE st = PUBLISH -> [clicks |-> <<"-save">>, pc |-> "returned"]
      [] st = DRAFT -> [clicks |-> <<"-save">>, pc |-> "returned"]
      [] st = CANCEL ->
           [clicks |-> IF shown THEN <<"Cancel", "ok">> ELSE <<"Cancel">>,
            pc |-> "returned"]
      [] st = DELETE ->
           [clicks |-> IF shown THEN <<"Delete", "ok">> ELSE <<"Delete">>,
            pc |-> IF shown THEN "returned" ELSE "raised"]
      [] OTHER -> [clicks |-> <<>>, pc |-> "returned"]

select_status_DeleteBestEffort(st, shown) ==
    CASE st = PUBLISH -> [clicks |-> <<"-publish">>, pc |-> "returned"]
      [] st = DRAFT -> [clicks |-> <<"-save">>, pc |-> "returned"]
      [] st = CANCEL ->
           [clicks |-> IF shown THEN <<"Cancel", "ok">> ELSE <<"Cancel">>,
            pc |-> "returned"]
      [] st = DELETE ->
           [clicks |-> IF shown THEN <<"Delete", "ok">> ELSE <<"Delete">>,
            pc |-> "returned"]
      [] OTHER -> [clicks |-> <<>>, pc |-> "returned"]

\* the footer control select_status clicks, and the confirmation that follows
select_status(st, shown) ==
    CASE st = PUBLISH -> [clicks |-> <<"-publish">>, pc |-> "returned"]
      [] st = DRAFT -> [clicks |-> <<"-save">>, pc |-> "returned"]
      [] st = CANCEL ->
           [clicks |-> IF shown THEN <<"Cancel", "ok">> ELSE <<"Cancel">>,
            pc |-> "returned"]
      [] st = DELETE ->
           [clicks |-> IF shown THEN <<"Delete", "ok">> ELSE <<"Delete">>,
            pc |-> IF shown THEN "returned" ELSE "raised"]
      [] OTHER -> [clicks |-> <<>>, pc |-> "returned"]

\* feedback = driver.find_element(By.ID, 'feedback-select') rebinds the
\* argument; the option is chosen by comparing the element with 'immediate'
FeedbackElement == "WebElement feedback-select"

FeedbackOption(arg) ==
    LET feedback_ == FeedbackElement
    IN  IF feedback_ = "immediate" THEN "option immediate" ELSE "option due_at"

Segment_Prepend(from, events, tag, to) ==
    /\ wf_pc = from
    /\ log' = events \o log
    /\ wf_pc' = IF Halts(break_point, tag) THEN "returned" ELSE to

Segment_CheckFirst(from, events, tag, to) ==
    /\ wf_pc = from
    /\ log' = IF Halts(break_point, tag) THEN log ELSE log \o events
    /\ wf_pc' = IF Halts(break_point, tag) THEN "returned" ELSE to

\* a stretch of a workflow: what it clicks and types, then the checkpoint
Segment(from, events, tag, to) ==
    /\ wf_pc = from
    /\ log' = log \o events
    /\ wf_pc' = IF Halts(break_point, tag) THEN "returned" ELSE to

\* self.assign_periods(driver, periods) within a workflow, the clicks that
\* follow it, then the checkpoint
PeriodSegment(events, tag, to) ==
    /\ wf_pc = "period"
    /\ form' = assign_periods(form, periods).form
    /\ ap_pc' = assign_periods(form, periods).pc
    /\ IF ap_pc' = "ValueError"
       THEN /\ wf_pc' = "raised"
            /\ log' = Append(log, "periods")
       ELSE /\ wf_pc' = IF Halts(break_point, tag) THEN "returned" ELSE to
            /\ log' = log \o <<"periods">> \o events
    /\ UNCHANGED <<periods, form0>>

\* self.select_status(driver, status): the call, then what it clicks
StatusSegment ==
    /\ wf_pc = "status"
    /\ log' = log \o <<"select_status">> \o select_status(status, dialog).clicks
    /\ wf_pc' = select_status(status, dialog).pc

wf_frame == <<kind, break_point, status, feedback, dialog>>

\* ---- add_new_reading ----------------------------------------------------
rd_Start ==
    /\ kind = READING
    /\ Segment("start", open_assignment_menu(menu_open) \o <<AddLink(kind)>>,
               BEFORE_TITLE, "title")
    /\ menu_open' = TRUE
    /\ UNCHANGED <<wf_frame, ap_vars, hp_vars>>

rd_Title ==
    /\ kind = READING
    /\ Segment("title", <<"reading-title">>, BEFORE_DESCRIPTION, "description")
    /\ UNCHANGED <<wf_frame, menu_open, ap_vars, hp_vars>>

rd_Description ==
    /\ kind = READING
    /\ Segment("description", <<"assignment-description">>, BEFORE_PERIOD, "period")
    /\ UNCHANGED <<wf_frame, menu_open, ap_vars, hp_vars>>

rd_Periods ==
    /\ kind = READING
    /\ PeriodSegment(<<"reading-select">>, BEFORE_SECTION_SELECT, "section")
    /\ UNCHANGED <<wf_frame, menu_open, hp_vars>>

rd_Sections ==
    /\ kind = READING
    /\ Segment("section", <<"select_sections">>, BEFORE_READING_SELECT, "reading")
    /\ UNCHANGED <<wf_frame, menu_open, ap_vars, hp_vars>>

rd_AddReadings ==
    /\ kind = READING
    /\ Segment("reading", <<"Add Readings">>, BEFORE_STATUS_SELECT, "status")
    /\ UNCHANGED <<wf_frame, menu_open, ap_vars, hp_vars>>

rd_Status ==
    /\ kind = READING
    /\ StatusSegment
    /\ UNCHANGED <<wf_frame, menu_open, ap_vars, hp_vars>>

\* ---- add_new_homework ---------------------------------------------------
hw_Start ==
    /\ kind = HOMEWORK
    /\ Segment("start", open_assignment_menu(menu_open) \o <<AddLink(kind)>>,
               BEFORE_TITLE, "title")
    /\ menu_open' = TRUE
    /\ UNCHANGED <<wf_frame, ap_vars, hp_vars>>

hw_Title ==
    /\ kind = HOMEWORK
    /\ Segment("title", <<"reading-title">>, BEFORE_DESCRIPTION, "description")
    /\ UNCHANGED <<wf_frame, menu_open, ap_vars, hp_vars>>

hw_Description ==
    /\ kind = HOMEWORK
    /\ Segment("description", <<"assignment-description">>, BEFORE_PERIOD, "period")
    /\ UNCHANGED <<wf_frame, menu_open, ap_vars, hp_vars>>

hw_Periods ==
    /\ kind = HOMEWORK
    /\ PeriodSegment(<<>>, BEFORE_EXERCISE_SELECT, "exercise")
    /\ UNCHANGED <<wf_frame, menu_open, hp_vars>>

\* self.add_homework_problems(driver, problems), one step of it
hw_Problems(step) ==
    /\ kind = HOMEWORK
    /\ wf_pc = "exercise"
    /\ step
    /\ UNCHANGED <<wf_vars, ap_vars>>

\* add_homework_problems has raised
hw_ProblemsRaise ==
    /\ kind = HOMEWORK
    /\ wf_pc = "exercise"
    /\ hp_pc \in {"ValueError", "IndexError"}
    /\ wf_pc' = "raised"
    /\ UNCHANGED <<wf_frame, menu_open, log, ap_vars, hp_vars>>

\* add_homework_problems has returned: the feedback select and its option
hw_Feedback ==
    /\ kind = HOMEWORK
    /\ hp_pc = "done"
    /\ Segment("exercise", <<"feedback-select", FeedbackOption(feedback)>>,
               BEFORE_STATUS_SELECT, "status")
    /\ UNCHANGED <<wf_frame, menu_open, ap_vars, hp_vars>>

hw_Status ==
    /\ kind = HOMEWORK
    /\ StatusSegment
    /\ UNCHANGED <<wf_frame, menu_open, ap_vars, hp_vars>>

\* ---- add_new_external ---------------------------------------------------
ex_Start ==
    /\ kind = EXTERNAL
    /\ Segment("start", open_assignment_menu(menu_open) \o <<AddLink(kind)>>,
               BEFORE_TITLE, "title")
    /\ menu_open' = TRUE
    /\ UNCHANGED <<wf_frame, ap_vars, hp_vars>>

ex_Title ==
    /\ kind = EXTERNAL
    /\ Segment("title", <<"reading-title">>, BEFORE_DESCRIPTION, "description")
    /\ UNCHANGED <<wf_frame, menu_open, ap_vars, hp_vars>>

ex_Description ==
    /\ kind = EXTERNAL
    /\ Segment("description", <<"assignment-description">>, BEFORE_PERIOD, "period")
    /\ UNCHANGED <<wf_frame, menu_open, ap_vars, hp_vars>>

ex_Periods ==
    /\ kind = EXTERNAL
    /\ PeriodSegment(<<>>, BEFORE_URL, "url")
    /\ UNCHANGED <<wf_frame, menu_open, hp_vars>>

ex_Url ==
    /\ kind = EXTERNAL
    /\ Segment("url", <<"external-url">>, BEFORE_STATUS_SELECT, "status")
    /\ UNCHANGED <<wf_frame, menu_open, ap_vars, hp_vars>>

ex_Status ==
    /\ kind = EXTERNAL
    /\ StatusSegment
    /\ UNCHANGED <<wf_frame, menu_open, ap_vars, hp_vars>>

\* ---- add_new_event ------------------------------------------------------
ev_Start ==
    /\ kind = EVENT
    /\ Segment("start", open_assignment_menu(menu_open) \o <<AddLink(kind)>>,
               BEFORE_TITLE, "title")
    /\ menu_open' = TRUE
    /\ UNCHANGED <<wf_frame, ap_vars, hp_vars>>

ev_Title ==
    /\ kind = EVENT
    /\ Segment("title", <<"reading-title">>, BEFORE_DESCRIPTION, "description")
    /\ UNCHANGED <<wf_frame, menu_open, ap_vars, hp_vars>>

ev_Description ==
    /\ kind = EVENT
    /\ Segment("description", <<"assignment-description">>, BEFORE_PERIOD, "period")
    /\ UNCHANGED <<wf_frame, menu_open, ap_vars, hp_vars>>

ev_Periods ==
    /\ kind = EVENT
    /\ PeriodSegment(<<>>, BEFORE_STATUS_SELECT, "status")
    /\ UNCHANGED <<wf_frame, menu_open, hp_vars>>

ev_Status ==
    /\ kind = EVENT
    /\ StatusSegment
    /\ UNCHANGED <<wf_frame, menu_open, ap_vars, hp_vars>>

\* the checkpoints each workflow tests for
Checkpoints(k) ==
    CASE k = READING ->
           {BEFORE_TITLE, BEFORE_DESCRIPTION, BEFORE_PERIOD, BEFORE_SECTION_SELECT,
            BEFORE_READING_SELECT, BEFORE_STATUS_SELECT}
      [] k = HOMEWORK ->
           {BEFORE_TITLE, BEFORE_DESCRIPTION, BEFORE_PERIOD, BEFORE_EXERCISE_SELECT,
            BEFORE_STATUS_SELECT}
      [] k = EXTERNAL ->
           {BEFORE_TITLE, BEFORE_DESCRIPTION, BEFORE_PERIOD, BEFORE_URL,
            BEFORE_STATUS_SELECT}
      [] k = EVENT ->
           {BEFORE_TITLE, BEFORE_DESCRIPTION, BEFORE_PERIOD, BEFORE_STATUS_SELECT}
      [] OTHER -> {}

\* no workflow is under way
wf_Idle ==
    /\ wf_pc = "idle"
    /\ kind = "none"
    /\ break_point = NoBreak
    /\ status = "none"
    /\ feedback = "none"
    /\ menu_open = FALSE
    /\ dialog = FALSE
    /\ log = <<>>

\* the forms, periods, books and problems the workflows are run on
WorkflowForms ==
    {f \in FormsOf(<<"1st", "2nd">>) :
        f.checked = {"2nd"} /\ f.header = HeaderText(f.today) /\ f.today.month = 12}

WorkflowPeriods ==
    { [k \in {name} |-> <<Str(OpenDay), Tuple(DueDay, DueTime)>>] :
      name \in {"all", "1st", "3rd"} }

WorkflowBooks == {b \in Books : Len(b[1]) = 1 /\ Len(b[2]) = 1}

WorkflowProblems ==
    {p \in ProblemSpecs :
        /\ Len(p) = 1
        /\ <<p[1].key, p[1].value>> \in
              {<<"ch1", All>>, <<"1.1", IntValue(2)>>, <<"1.1", TupleValue(1, 2)>>,
               <<"2.1", ListValue(<<1>>)>>}}

wf_Init ==
    /\ wf_pc = "start"
    /\ kind \in Kinds
    /\ break_point \in BreakPoints
    /\ status \in Statuses
    /\ feedback \in IF kind = HOMEWORK THEN {"immediate", "non-immediate"} ELSE {"none"}
    /\ menu_open \in BOOLEAN
    /\ dialog \in BOOLEAN
    /\ log = <<>>
    /\ ap_pc = "call"
    /\ periods \in WorkflowPeriods
    /\ form \in WorkflowForms
    /\ form0 = form
    /\ IF kind = HOMEWORK
       THEN /\ hp_pc = "call"
            /\ problems \in WorkflowProblems
            /\ book \in WorkflowBooks
            /\ all_available = <<>>
            /\ scraped = <<>>
            /\ hp_i = 0
            /\ using = <<>>
            /\ resolved = [i \in DOMAIN problems |-> <<>>]
            /\ clicks = [e \in ExerciseIds |-> 0]
       ELSE hp_Idle

(***************************************************************************)
(* self.edit, self.remove and their callers (assignment.py 101-201,        *)
(* 864-971; helper.py 621-649)                                             *)
(***************************************************************************)
\* the keys of args the model varies; the other keys are read with a default
ArgKeys == {"title", "description", "periods", "status"}

\* args[...] without "if ... in args": a missing key raises KeyError
RequiredArgs(op) ==
    IF op = "edit" THEN {"title", "description", "periods", "status"} ELSE {"title"}

\* the keywords Teacher.change_assignment and delete_assignment pass
TeacherKeywords ==
    {"driver", "name", "description", "periods", "state", "url", "reading_list",
     "problems", "feedback"}

\* the parameters of the lambdas of self.edit and self.remove, and those of
\* them without a default
LambdaSignature(op, k) ==
    [params |-> {"driver", "name", "description", "periods", "reading_list", "state",
                 "problems", "url", "feedback"},
     required |-> IF op = "edit" /\ k = READING THEN {"driver", "name"}
                  ELSE {"driver", "name", "description", "periods", "reading_list",
                        "state", "problems", "url", "feedback"}]

\* the method a lambda calls
MethodOf(op, k) ==
    CASE op = "edit" /\ k = READING -> "change_reading"
      [] op = "edit" /\ k = HOMEWORK -> "change_homework"
      [] op = "edit" /\ k = EXTERNAL -> "change_external"
      [] op = "edit" /\ k = EVENT -> "change_event"
      [] op = "remove" /\ k = READING -> "delete_reading"
      [] op = "remove" /\ k = HOMEWORK -> "delete_homework"
      [] op = "remove" /\ k = EXTERNAL -> "delete_external"
      [] op = "remove" /\ k = EVENT -> "delete_event"

\* the keywords a lambda passes to its method
LambdaKeywords(k) ==
    {"driver", "title", "description", "periods", "status"} \cup
    (CASE k = READING -> {"readings"}
       [] k = HOMEWORK -> {"problems", "feedback"}
       [] k = EXTERNAL -> {"assignment_url"}
       [] k = EVENT -> {})

\* the parameters of a method (self apart), and those without a default
MethodSignature(fn) ==
    LET params ==
            {"driver", "title", "description", "periods", "status"} \cup
            (CASE fn \in {"change_reading", "delete_reading"} -> {"readings"}
               [] fn \in {"change_homework", "delete_homework"} -> {"problems", "feedback"}
               [] fn \in {"change_external", "delete_external"} -> {"assignment_url"}
               [] OTHER -> {})
    IN  [params |-> params,
         required |-> IF fn = "change_reading" THEN {"driver", "title"} ELSE params]

\* a call by keywords: every keyword must name a parameter and every
\* parameter without a default must be given, or TypeError is raised
Binds(signature, keywords) ==
    keywords \subseteq signature.params /\ signature.required \subseteq keywords

\* the keywords delete_homework, delete_external and delete_event pass to
\* self.remove[Assignment.READING]
ForwardKeywords == {"driver", "title", "description", "periods", "problems", "status"}

IsStub_ReadingDone(fn) == fn \in {"change_homework", "change_external", "change_event"}

\* the methods whose body is "raise NotImplementedError(...)"
IsStub(fn) ==
    fn \in {"change_reading", "change_homework", "change_external", "change_event"}

\* the body of delete_reading: what it asks of the browser and how it ends
delete_reading(periods_, page) ==
    CASE periods_ = "None" ->
           \* for period in periods: None is not iterable
           [log |-> <<"navbar-brand">>, pc |-> "TypeError"]
      [] periods_ = "empty" ->
           \* due_date stays '': date = [''] and date[2] is out of range
           [log |-> <<"navbar-brand">>, pc |-> "IndexError"]
      [] ~page.listed ->
           [log |-> <<"navbar-brand", "get month">>, pc |-> "TimeoutException"]
      [] OTHER ->
           [log |-> <<"navbar-brand", "get month", "assignment">>
                    \o (IF page.modal THEN <<"-edit-assignment">> ELSE <<>>)
                    \o <<"delete-link", "Yes">>,
            pc |-> "returned"]

\* no call of change_assignment or delete_assignment is under way
mg_Idle ==
    /\ mg_pc = "idle"
    /\ mg_op = "none"
    /\ mg_kind = "none"
    /\ mg_args = {}
    /\ mg_periods = "None"
    /\ mg_page = <<>>
    /\ mg_target = "none"
    /\ mg_fn = "none"
    /\ mg_kwargs = {}
    /\ mg_log = <<>>

mg_Init ==
    /\ mg_pc = "call"
    /\ mg_op \in {"edit", "remove"}
    /\ mg_kind \in Kinds
    /\ mg_args \in SUBSET ArgKeys
    /\ mg_periods \in IF "periods" \in mg_args THEN {"empty", "dated"} ELSE {"None"}
    /\ mg_page \in [listed : BOOLEAN, modal : BOOLEAN]
    /\ mg_target = mg_kind
    /\ mg_fn = "none"
    /\ mg_kwargs = {}
    /\ mg_log = <<>>

mg_frame == <<mg_op, mg_kind, mg_args, mg_periods, mg_page>>

\* Teacher.change_assignment / Teacher.delete_assignment reads args and
\* calls self.assign.edit[assignment] / self.assign.remove[assignment]
mg_Teacher ==
    /\ mg_pc = "call"
    /\ IF RequiredArgs(mg_op) \subseteq mg_args
       THEN mg_pc' = "lambda" /\ mg_kwargs' = TeacherKeywords
       ELSE mg_pc' = "KeyError" /\ mg_kwargs' = mg_kwargs
    /\ UNCHANGED <<mg_frame, mg_target, mg_fn, mg_log>>

\* the lambda under the key mg_target is called and calls its method
mg_Lambda ==
    /\ mg_pc = "lambda"
    /\ IF Binds(LambdaSignature(mg_op, mg_target), mg_kwargs)
       THEN /\ mg_pc' = "function"
            /\ mg_fn' = MethodOf(mg_op, mg_target)
            /\ mg_kwargs' = LambdaKeywords(mg_target)
       ELSE /\ mg_pc' = "TypeError"
            /\ UNCHANGED <<mg_fn, mg_kwargs>>
    /\ UNCHANGED <<mg_frame, mg_target, mg_log>>

\* the method is entered with the lambda's keywords
mg_Method ==
    /\ mg_pc = "function"
    /\ mg_pc' = IF Binds(MethodSignature(mg_fn), mg_kwargs) THEN "body" ELSE "TypeError"
    /\ UNCHANGED <<mg_frame, mg_target, mg_fn, mg_kwargs, mg_log>>

\* change_reading, change_homework, change_external, change_event
mg_Change ==
    /\ mg_pc = "body"
    /\ mg_op = "edit"
    /\ mg_pc' = IF IsStub(mg_fn) THEN "NotImplementedError" ELSE "returned"
    /\ UNCHANGED <<mg_frame, mg_target, mg_fn, mg_kwargs, mg_log>>

\* delete_homework, delete_external, delete_event: self.remove[READING](...)
mg_Forward ==
    /\ mg_pc = "body"
    /\ mg_fn \in {"delete_homework", "delete_external", "delete_event"}
    /\ mg_target' = READING
    /\ mg_kwargs' = ForwardKeywords
    /\ mg_pc' = "lambda"
    /\ UNCHANGED <<mg_frame, mg_fn, mg_log>>

\* delete_reading
mg_DeleteReading ==
    /\ mg_pc = "body"
    /\ mg_fn = "delete_reading"
    /\ mg_log' = delete_reading(mg_periods, mg_page).log
    /\ mg_pc' = delete_reading(mg_periods, mg_page).pc
    /\ UNCHANGED <<mg_frame, mg_target, mg_fn, mg_kwargs>>

(***************************************************************************)
(* User.login (helper.py 339-413)                                          *)
(***************************************************************************)
\* Helper.CONDENSED_WIDTH, pixels
CONDENSED_WIDTH == 767

\* the addresses login is given
Urls == {"https://tutor-qa.openstax.org", "https://exercises-qa.openstax.org",
         "https://accounts-qa.openstax.org"}

\* 'tutor' in url_address
IsTutorUrl(url) == url = "https://tutor-qa.openstax.org"

\* 'exercises' in url_address
IsExercisesUrl(url) == url = "https://exercises-qa.openstax.org"

\* page sources the browser may hold when the login form is expected
Sources == {"<title>OpenStax Accounts</title>", "<title>openstax</title>",
            "<title>Example Domain</title>"}

\* re.search(r'openstax', src.lower())
text_located(src) ==
    LET lowered == CASE src = "<title>OpenStax Accounts</title>" ->
                          "<title>openstax accounts</title>"
                     [] src = "<title>Example Domain</title>" ->
                          "<title>example domain</title>"
                     [] OTHER -> src
    IN  lowered \in {"<title>openstax accounts</title>", "<title>openstax</title>"}

RaisesLoginError_Never(src) == FALSE

\* if not text_located: raise self.LoginError('Non-OpenStax URL: ...')
RaisesLoginError(src) == ~text_located(src)

\* no call of login is under way
lg_Idle ==
    /\ lg_pc = "idle"
    /\ lg_url = "none"
    /\ lg_width = 0
    /\ lg_collapsed = FALSE
    /\ lg_src = "none"
    /\ lg_reset = FALSE
    /\ lg_terms = 0
    /\ lg_log = <<>>

lg_Init ==
    /\ lg_pc = "call"
    /\ lg_url \in Urls
    /\ lg_width \in {CONDENSED_WIDTH, CONDENSED_WIDTH + 1}
    /\ lg_collapsed \in BOOLEAN
    /\ lg_src \in Sources
    /\ lg_reset \in BOOLEAN
    /\ lg_terms \in 0 .. MaxTerms
    /\ lg_log = <<>>

lg_frame == <<lg_url, lg_width, lg_src, lg_reset>>

\* the probe for the login link: expect.visibility_of_element_located is
\* called with By.XPATH and the path as two arguments, where it takes one
\* locator, so building the condition raises TypeError inside the try,
\* whether the menu is collapsed or not; the bare except catches it
LoginLinkProbeRaises(collapsed) == TRUE

\* self.get(url_address) and the branch on the address.  In a condensed
\* window the probe for the login link is built with two arguments where
\* the condition takes one locator, so it raises inside the try and the
\* bare except clicks the toggle.
lg_Open ==
    /\ lg_pc = "call"
    /\ LET condensed == lg_width <= CONDENSED_WIDTH
           toggled == IsTutorUrl(lg_url) /\ condensed
                      /\ LoginLinkProbeRaises(lg_collapsed)
           collapsed == IF toggled THEN ~lg_collapsed ELSE lg_collapsed
           visible == ~condensed \/ ~collapsed
       IN  /\ lg_collapsed' = collapsed
           /\ IF IsTutorUrl(lg_url)
              THEN /\ lg_log' = <<"get">>
                                \o (IF toggled THEN <<"navbar-toggle">> ELSE <<>>)
                                \o (IF visible THEN <<"Log in">> ELSE <<>>)
                   /\ lg_pc' = IF visible THEN "check" ELSE "TimeoutException"
              ELSE /\ lg_log' = IF IsExercisesUrl(lg_url) THEN <<"get", "Sign in">>
                                                           ELSE <<"get">>
                   /\ lg_pc' = "check"
    /\ UNCHANGED <<lg_frame, lg_terms>>

\* src = self.driver.page_source; the test for 'openstax'; then the
\* username and the password
lg_Credentials ==
    /\ lg_pc = "check"
    /\ IF RaisesLoginError(lg_src)
       THEN /\ lg_pc' = "LoginError"
            /\ lg_log' = lg_log
       ELSE /\ lg_pc' = "reset"
            /\ lg_log' = lg_log \o <<"login_username_or_email", "Next",
                                      "login_password", "Login">>
    /\ UNCHANGED <<lg_frame, lg_collapsed, lg_terms>>

\* if 'reset your password' in self.driver.page_source.lower(): ...
lg_Reset ==
    /\ lg_pc = "reset"
    /\ lg_log' = IF lg_reset
                 THEN lg_log \o <<"reset_password_password",
                                  "reset_password_password_confirmation",
                                  "Reset Password", "Continue">>
                 ELSE lg_log
    /\ lg_pc' = "terms"
    /\ UNCHANGED <<lg_frame, lg_collapsed, lg_terms>>

\* while 'terms of use' in source or 'privacy policy' in source:
\*     self.accept_contract()
lg_AcceptContract ==
    /\ lg_pc = "terms"
    /\ lg_terms > 0
    /\ lg_terms' = lg_terms - 1
    /\ lg_log' = lg_log \o <<"i_agree", "agreement_submit">>
    /\ UNCHANGED <<lg_frame, lg_collapsed, lg_pc>>

\* return self
lg_Return ==
    /\ lg_pc = "terms"
    /\ lg_terms = 0
    /\ lg_pc' = "returned"
    /\ UNCHANGED <<lg_frame, lg_collapsed, lg_terms, lg_log>>

(***************************************************************************)
(* User.logout (helper.py 415-425, 460-511)                                *)
(***************************************************************************)
\* the methods of User whose name ends in _logout
LogoutMethods == {"tutor_logout", "accounts_logout", "execises_logout"}

\* the attribute logout looks up on self for the URL, "none" for the else
LogoutAttribute(url) ==
    CASE "tutor" \in url -> "tutor_logout"
      [] "tutor" \notin url /\ "accounts" \in url -> "accounts_logout"
      [] {"tutor", "accounts"} \cap url = {} /\ "exercises" \in url -> "exercises_logout"
      [] OTHER -> "none"

\* no call of logout is under way
lo_Idle ==
    /\ lo_pc = "idle"
    /\ lo_url = {}
    /\ lo_width = 0
    /\ lo_page = <<>>
    /\ lo_flow = "none"
    /\ lo_log = <<>>

lo_Init ==
    /\ lo_pc = "call"
    /\ lo_url \in SUBSET {"tutor", "accounts", "exercises"}
    /\ lo_width \in {CONDENSED_WIDTH, CONDENSED_WIDTH + 1}
    /\ lo_page \in [toggle : BOOLEAN, dropdown : BOOLEAN, logout : BOOLEAN]
    /\ lo_flow = "none"
    /\ lo_log = <<>>

\* logout: the branch on the URL and the lookup of the helper
lo_Dispatch ==
    /\ lo_pc = "call"
    /\ LET name == LogoutAttribute(lo_url)
       IN  /\ lo_pc' = CASE name = "none" -> "HTTPError"
                          [] name \notin LogoutMethods -> "AttributeError"
                          [] OTHER -> name
           /\ lo_flow' = IF name \in LogoutMethods THEN name ELSE "none"
    /\ UNCHANGED <<lo_url, lo_width, lo_page, lo_log>>

\* tutor_logout: open_user_menu, then the Log Out control
lo_TutorLogout ==
    /\ lo_pc = "tutor_logout"
    /\ LET condensed == lo_width <= CONDENSED_WIDTH
           menu == IF condensed
                   THEN (IF lo_page.toggle THEN <<"navbar-toggle">> ELSE <<>>)
                   ELSE <<>>
           stuck1 == condensed /\ ~lo_page.toggle
           drop == IF ~stuck1 /\ lo_page.dropdown THEN <<"dropdown-toggle">> ELSE <<>>
           stuck2 == stuck1 \/ ~lo_page.dropdown
           out == IF ~stuck2 /\ lo_page.logout THEN <<"Log Out">> ELSE <<>>
       IN  /\ lo_log' = menu \o drop \o out
           /\ lo_pc' = IF stuck2 \/ ~lo_page.logout THEN "TimeoutException" ELSE "returned"
    /\ UNCHANGED <<lo_url, lo_width, lo_page, lo_flow>>

\* accounts_logout: self.find(By.LINK_TEXT, 'Log out').click()
lo_AccountsLogout ==
    /\ lo_pc = "accounts_logout"
    /\ lo_log' = IF lo_page.logout THEN <<"Log out">> ELSE <<>>
    /\ lo_pc' = IF lo_page.logout THEN "returned" ELSE "NoSuchElementException"
    /\ UNCHANGED <<lo_url, lo_width, lo_page, lo_flow>>

(***************************************************************************)
(* Teacher.rotate_calendar (helper.py 794-831)                             *)
(***************************************************************************)
\* month, year = calendar_date.split(' ');
\* return self.get_month_number(month), int(year)
get_month_year(text) == ReadHeader(text)

\* the calendar's reaction to a click on fa-caret-right
CaretRight(text) == ClickNextMonth(text)

\* the calendar's reaction to a click on fa-caret-left
CaretLeft(text) == ClickPreviousMonth(text)

WhileCond_NoYearBack(loop, m, y, target) ==
    CASE loop = "while1" -> y < target.year
      [] loop = "while2" -> m < target.month
      [] loop = "while3" -> FALSE
      [] loop = "while4" -> m > target.month

\* the conditions of the four while loops
WhileCond(loop, m, y, target) ==
    CASE loop = "while1" -> y < target.year
      [] loop = "while2" -> m < target.month
      [] loop = "while3" -> y > target.year
      [] loop = "while4" -> m > target.month

\* the statement after a loop
AfterLoop(loop) ==
    CASE loop = "while1" -> "while2" [] loop = "while2" -> "while3"
      [] loop = "while3" -> "while4" [] loop = "while4" -> "done"

\* no call of rotate_calendar is under way
rc_Idle ==
    /\ rc_pc = "idle"
    /\ rc_header = <<>>
    /\ rc_header0 = <<>>
    /\ rc_target = <<>>
    /\ cal_month = 0
    /\ cal_year = 0
    /\ rc_clicks = <<>>

rc_Init ==
    /\ rc_pc = "call"
    /\ rc_header \in {HeaderText(ym) : ym \in YearMonths}
    /\ rc_header0 = rc_header
    /\ rc_target \in YearMonths
    /\ cal_month = 0
    /\ cal_year = 0
    /\ rc_clicks = [c \in {"fa-caret-right", "fa-caret-left"} |-> 0]

\* cal_month, cal_year = self.get_month_year(); the early return; the
\* second reading
rc_Open ==
    /\ rc_pc = "call"
    /\ cal_month' = get_month_year(rc_header).month
    /\ cal_year' = get_month_year(rc_header).year
    /\ rc_pc' = IF cal_year' = rc_target.year /\ cal_month' = rc_target.month
                THEN "done" ELSE "while1"
    /\ UNCHANGED <<rc_header, rc_header0, rc_target, rc_clicks>>

\* the body of the first and of the second loop
rc_ClickRight ==
    /\ rc_pc \in {"while1", "while2"}
    /\ WhileCond(rc_pc, cal_month, cal_year, rc_target)
    /\ rc_header' = CaretRight(rc_header)
    /\ rc_clicks' = [rc_clicks EXCEPT !["fa-caret-right"] = @ + 1]
    /\ cal_month' = get_month_year(rc_header').month
    /\ cal_year' = get_month_year(rc_header').year
    /\ UNCHANGED <<rc_pc, rc_header0, rc_target>>

\* the body of the third and of the fourth loop
rc_ClickLeft ==
    /\ rc_pc \in {"while3", "while4"}
    /\ WhileCond(rc_pc, cal_month, cal_year, rc_target)
    /\ rc_header' = CaretLeft(rc_header)
    /\ rc_clicks' = [rc_clicks EXCEPT !["fa-caret-left"] = @ + 1]
    /\ cal_month' = get_month_year(rc_header').month
    /\ cal_year' = get_month_year(rc_header').year
    /\ UNCHANGED <<rc_pc, rc_header0, rc_target>>

\* a loop's condition is false: on to the next loop, or the end
rc_LoopExit ==
    /\ rc_pc \in {"while1", "while2", "while3", "while4"}
    /\ ~WhileCond(rc_pc, cal_month, cal_year, rc_target)
    /\ rc_pc' = AfterLoop(rc_pc)
    /\ UNCHANGED <<rc_header, rc_header0, rc_target, cal_month, cal_year, rc_clicks>>

(***************************************************************************)
(* Helper.change_wait_time and Student.answer_assessment                   *)
(* (helper.py 71-79, 172-178, 955-995)                                     *)
(***************************************************************************)
\* the three waits after Helper.__init__ has built its driver with wait_time
Constructed(wait_time) ==
    [wait_time |-> wait_time, implicitly_wait |-> wait_time, wait |-> wait_time]

change_wait_time_DriverFirst(w, new_wait) ==
    IF new_wait <= 0
    THEN [waits |-> [w EXCEPT !.implicitly_wait = new_wait], pc |-> "ValueError"]
    ELSE [waits |-> Constructed(new_wait), pc |-> "returned"]

\* change_wait_time: the waits it leaves and how it ends
change_wait_time(w, new_wait) ==
    IF new_wait <= 0
    THEN [waits |-> w, pc |-> "ValueError"]
    ELSE [waits |-> [wait_time |-> new_wait, implicitly_wait |-> new_wait,
                     wait |-> new_wait],
          pc |-> "returned"]

RestoreOnExcept_Skip(w, wt) == w

\* except Exception: self.change_wait_time(wt)
RestoreOnExcept(w, wt) == change_wait_time(w, wt).waits

\* neither change_wait_time nor answer_assessment is under way
wa_Idle ==
    /\ waits = <<>>
    /\ wt_arg = 0
    /\ wt_result = "none"
    /\ wt_last = 0
    /\ wt_calls = 0
    /\ aa_pc = "idle"
    /\ aa_wt = 0
    /\ aa_waits0 = <<>>
    /\ aa_page = <<>>
    /\ aa_log = <<>>

wa_Init ==
    /\ \E wait_time \in 1 .. MaxWait :
          /\ waits = Constructed(wait_time)
          /\ wt_last = wait_time
    /\ wt_arg = 0
    /\ wt_result = "none"
    /\ wt_calls = 0
    /\ aa_pc = "ready"
    /\ aa_wt = 0
    /\ aa_waits0 = <<>>
    /\ aa_page \in [textarea : BOOLEAN, typing : BOOLEAN, answers : 0 .. 2]
    /\ aa_log = <<>>

aa_frame == <<wt_arg, wt_result, wt_last, wt_calls, aa_page>>

\* the test calls change_wait_time(new_wait)
wt_Change ==
    /\ aa_pc = "ready"
    /\ wt_calls < MaxChanges
    /\ \E new_wait \in -1 .. MaxWait :
          /\ wt_arg' = new_wait
          /\ waits' = change_wait_time(waits, new_wait).waits
          /\ wt_result' = change_wait_time(waits, new_wait).pc
          /\ wt_last' = IF wt_result' = "returned" THEN new_wait ELSE wt_last
    /\ wt_calls' = wt_calls + 1
    /\ UNCHANGED <<aa_pc, aa_wt, aa_waits0, aa_page, aa_log>>

\* answer_assessment up to the probe: wt = self.wait_time;
\* self.change_wait_time(3)
aa_Lower ==
    /\ aa_pc = "ready"
    /\ aa_waits0' = waits
    /\ aa_wt' = waits.wait_time
    /\ waits' = change_wait_time(waits, 3).waits
    /\ aa_pc' = "probe"
    /\ UNCHANGED <<aa_frame, aa_log>>

\* text_block = self.find(By.XPATH, '//textarea') finds it:
\* self.change_wait_time(wt)
aa_Found ==
    /\ aa_pc = "probe"
    /\ aa_page.textarea
    /\ waits' = change_wait_time(waits, aa_wt).waits
    /\ aa_pc' = "typing"
    /\ UNCHANGED <<aa_frame, aa_wt, aa_waits0, aa_log>>

\* self.find raises: the except clause
aa_Absent ==
    /\ aa_pc = "probe"
    /\ ~aa_page.textarea
    /\ waits' = RestoreOnExcept(waits, aa_wt)
    /\ aa_pc' = "answers"
    /\ UNCHANGED <<aa_frame, aa_wt, aa_waits0, aa_log>>

\* Assignment.send_keys(...); self.find(By.CLASS_NAME, 'continue').click(),
\* or the except clause when one of them raises
aa_Type ==
    /\ aa_pc = "typing"
    /\ IF aa_page.typing
       THEN /\ aa_log' = aa_log \o <<"textarea", "continue">>
            /\ waits' = waits
       ELSE /\ aa_log' = aa_log \o <<"textarea">>
            /\ waits' = RestoreOnExcept(waits, aa_wt)
    /\ aa_pc' = "answers"
    /\ UNCHANGED <<aa_frame, aa_wt, aa_waits0>>

\* answers = self.find_all(...); rand = randint(0, len(answers) - 1);
\* answers[rand].click(); Submit; continue
aa_Answer ==
    /\ aa_pc = "answers"
    /\ IF aa_page.answers = 0
       THEN aa_pc' = "ValueError" /\ aa_log' = aa_log
       ELSE /\ aa_pc' = "returned"
            /\ \E rand \in 0 .. aa_page.answers - 1 :
                  aa_log' = aa_log \o <<<<"answer-letter", rand>>, "Submit", "continue">>
    /\ UNCHANGED <<aa_frame, waits, aa_wt, aa_waits0>>

(***************************************************************************)
(* Teacher.goto_performance_forecast (helper.py 651-662, 686-702)          *)
(***************************************************************************)
\* the guide container is visible at wait attempt k
Visible(page, k) == page.loads # 0 /\ k >= page.loads

\* while timer < 10
TimerCond(t) == t < 10

AfterSuccess_Next(t) == t + 1

\* timer = 10 after self.wait.until returned
AfterSuccess(t) == 10

pf_Idle ==
    /\ pf_pc = "idle"
    /\ timer = 0
    /\ pf_attempts = 0
    /\ pf_page = <<>>

\* loads = 0: the forecast never becomes visible
pf_Init ==
    /\ pf_pc = "call"
    /\ timer = 0
    /\ pf_attempts = 0
    /\ pf_page \in [courses : BOOLEAN, link : BOOLEAN, loads : 0 .. MaxLoad]

\* self.goto_menu_item('Performance Forecast'); timer = 0
pf_MenuItem ==
    /\ pf_pc = "call"
    /\ pf_pc' = IF pf_page.courses /\ ~pf_page.link THEN "TimeoutException" ELSE "loop"
    /\ timer' = 0
    /\ UNCHANGED <<pf_attempts, pf_page>>

\* one pass of the loop: self.wait.until(...) and timer = 10, or the
\* except clause
pf_Attempt ==
    /\ pf_pc = "loop"
    /\ TimerCond(timer)
    /\ pf_attempts' = pf_attempts + 1
    /\ timer' = IF Visible(pf_page, pf_attempts') THEN AfterSuccess(timer) ELSE timer + 1
    /\ UNCHANGED <<pf_pc, pf_page>>

\* the loop condition fails: print('Exit: goto_performance_forecast')
pf_Return ==
    /\ pf_pc = "loop"
    /\ ~TimerCond(timer)
    /\ pf_pc' = "returned"
    /\ UNCHANGED <<timer, pf_attempts, pf_page>>

(***************************************************************************)
(* Specifications                                                          *)
(***************************************************************************)
PeriodsInit == ap_Init /\ dp_Idle /\ hp_Idle /\ wf_Idle /\ om_Idle /\ ts_Idle /\ mg_Idle /\ lg_Idle /\ lo_Idle /\ rc_Idle /\ wa_Idle /\ pf_Idle

PeriodsNext == ap_Call /\ UNCHANGED <<dp_vars, hp_vars, wf_vars, om_vars, ts_vars, mg_vars, lg_vars, lo_vars, rc_vars, wa_vars, pf_vars>>

SpecPeriods == PeriodsInit /\ [][PeriodsNext]_vars

ProblemsInit == hp_Init /\ dp_Idle /\ ap_Idle /\ wf_Idle /\ om_Idle /\ ts_Idle /\ mg_Idle /\ lg_Idle /\ lo_Idle /\ rc_Idle /\ wa_Idle /\ pf_Idle

ProblemsNext ==
    \/ hp_Scrape /\ UNCHANGED <<dp_vars, ap_vars, wf_vars, om_vars, ts_vars, mg_vars, lg_vars, lo_vars, rc_vars, wa_vars, pf_vars>>
    \/ hp_All /\ UNCHANGED <<dp_vars, ap_vars, wf_vars, om_vars, ts_vars, mg_vars, lg_vars, lo_vars, rc_vars, wa_vars, pf_vars>>
    \/ hp_Tuple /\ UNCHANGED <<dp_vars, ap_vars, wf_vars, om_vars, ts_vars, mg_vars, lg_vars, lo_vars, rc_vars, wa_vars, pf_vars>>
    \/ hp_Int /\ UNCHANGED <<dp_vars, ap_vars, wf_vars, om_vars, ts_vars, mg_vars, lg_vars, lo_vars, rc_vars, wa_vars, pf_vars>>
    \/ hp_List /\ UNCHANGED <<dp_vars, ap_vars, wf_vars, om_vars, ts_vars, mg_vars, lg_vars, lo_vars, rc_vars, wa_vars, pf_vars>>
    \/ hp_AddExercises /\ UNCHANGED <<dp_vars, ap_vars, wf_vars, om_vars, ts_vars, mg_vars, lg_vars, lo_vars, rc_vars, wa_vars, pf_vars>>

SpecProblems == ProblemsInit /\ [][ProblemsNext]_vars

Init == wf_Init /\ dp_Idle /\ om_Idle /\ ts_Idle /\ mg_Idle /\ lg_Idle /\ lo_Idle /\ rc_Idle /\ wa_Idle /\ pf_Idle

Next ==
    \/ rd_Start /\ UNCHANGED <<dp_vars, om_vars, ts_vars, mg_vars, lg_vars, lo_vars, rc_vars, wa_vars, pf_vars>>
    \/ rd_Title /\ UNCHANGED <<dp_vars, om_vars, ts_vars, mg_vars, lg_vars, lo_vars, rc_vars, wa_vars, pf_vars>>
    \/ rd_Description /\ UNCHANGED <<dp_vars, om_vars, ts_vars, mg_vars, lg_vars, lo_vars, rc_vars, wa_vars, pf_vars>>
    \/ rd_Periods /\ UNCHANGED <<dp_vars, om_vars, ts_vars, mg_vars, lg_vars, lo_vars, rc_vars, wa_vars, pf_vars>>
    \/ rd_Sections /\ UNCHANGED <<dp_vars, om_vars, ts_vars, mg_vars, lg_vars, lo_vars, rc_vars, wa_vars, pf_vars>>
    \/ rd_AddReadings /\ UNCHANGED <<dp_vars, om_vars, ts_vars, mg_vars, lg_vars, lo_vars, rc_vars, wa_vars, pf_vars>>
    \/ rd_Status /\ UNCHANGED <<dp_vars, om_vars, ts_vars, mg_vars, lg_vars, lo_vars, rc_vars, wa_vars, pf_vars>>
    \/ hw_Start /\ UNCHANGED <<dp_vars, om_vars, ts_vars, mg_vars, lg_vars, lo_vars, rc_vars, wa_vars, pf_vars>>
    \/ hw_Title /\ UNCHANGED <<dp_vars, om_vars, ts_vars, mg_vars, lg_vars, lo_vars, rc_vars, wa_vars, pf_vars>>
    \/ hw_Description /\ UNCHANGED <<dp_vars, om_vars, ts_vars, mg_vars, lg_vars, lo_vars, rc_vars, wa_vars, pf_vars>>
    \/ hw_Periods /\ UNCHANGED <<dp_vars, om_vars, ts_vars, mg_vars, lg_vars, lo_vars, rc_vars, wa_vars, pf_vars>>
    \/ hw_Problems(hp_Scrape) /\ UNCHANGED <<dp_vars, om_vars, ts_vars, mg_vars, lg_vars, lo_vars, rc_vars, wa_vars, pf_vars>>
    \/ hw_Problems(hp_All) /\ UNCHANGED <<dp_vars, om_vars, ts_vars, mg_vars, lg_vars, lo_vars, rc_vars, wa_vars, pf_vars>>
    \/ hw_Problems(hp_Tuple) /\ UNCHANGED <<dp_vars, om_vars, ts_vars, mg_vars, lg_vars, lo_vars, rc_vars, wa_vars, pf_vars>>
    \/ hw_Problems(hp_Int) /\ UNCHANGED <<dp_vars, om_vars, ts_vars, mg_vars, lg_vars, lo_vars, rc_vars, wa_vars, pf_vars>>
    \/ hw_Problems(hp_List) /\ UNCHANGED <<dp_vars, om_vars, ts_vars, mg_vars, lg_vars, lo_vars, rc_vars, wa_vars, pf_vars>>
    \/ hw_Problems(hp_AddExercises) /\ UNCHANGED <<dp_vars, om_vars, ts_vars, mg_vars, lg_vars, lo_vars, rc_vars, wa_vars, pf_vars>>
    \/ hw_ProblemsRaise /\ UNCHANGED <<dp_vars, om_vars, ts_vars, mg_vars, lg_vars, lo_vars, rc_vars, wa_vars, pf_vars>>
    \/ hw_Feedback /\ UNCHANGED <<dp_vars, om_vars, ts_vars, mg_vars, lg_vars, lo_vars, rc_vars, wa_vars, pf_vars>>
    \/ hw_Status /\ UNCHANGED <<dp_vars, om_vars, ts_vars, mg_vars, lg_vars, lo_vars, rc_vars, wa_vars, pf_vars>>
    \/ ex_Start /\ UNCHANGED <<dp_vars, om_vars, ts_vars, mg_vars, lg_vars, lo_vars, rc_vars, wa_vars, pf_vars>>
    \/ ex_Title /\ UNCHANGED <<dp_vars, om_vars, ts_vars, mg_vars, lg_vars, lo_vars, rc_vars, wa_vars, pf_vars>>
    \/ ex_Description /\ UNCHANGED <<dp_vars, om_vars, ts_vars, mg_vars, lg_vars, lo_vars, rc_vars, wa_vars, pf_vars>>
    \/ ex_Periods /\ UNCHANGED <<dp_vars, om_vars, ts_vars, mg_vars, lg_vars, lo_vars, rc_vars, wa_vars, pf_vars>>
    \/ ex_Url /\ UNCHANGED <<dp_vars, om_vars, ts_vars, mg_vars, lg_vars, lo_vars, rc_vars, wa_vars, pf_vars>>
    \/ ex_Status /\ UNCHANGED <<dp_vars, om_vars, ts_vars, mg_vars, lg_vars, lo_vars, rc_vars, wa_vars, pf_vars>>
    \/ ev_Start /\ UNCHANGED <<dp_vars, om_vars, ts_vars, mg_vars, lg_vars, lo_vars, rc_vars, wa_vars, pf_vars>>
    \/ ev_Title /\ UNCHANGED <<dp_vars, om_vars, ts_vars, mg_vars, lg_vars, lo_vars, rc_vars, wa_vars, pf_vars>>
    \/ ev_Description /\ UNCHANGED <<dp_vars, om_vars, ts_vars, mg_vars, lg_vars, lo_vars, rc_vars, wa_vars, pf_vars>>
    \/ ev_Periods /\ UNCHANGED <<dp_vars, om_vars, ts_vars, mg_vars, lg_vars, lo_vars, rc_vars, wa_vars, pf_vars>>
    \/ ev_Status /\ UNCHANGED <<dp_vars, om_vars, ts_vars, mg_vars, lg_vars, lo_vars, rc_vars, wa_vars, pf_vars>>

Spec == Init /\ [][Next]_vars

PickerInit == dp_Init /\ ap_Idle /\ hp_Idle /\ wf_Idle /\ om_Idle /\ ts_Idle /\ mg_Idle /\ lg_Idle /\ lo_Idle /\ rc_Idle /\ wa_Idle /\ pf_Idle

PickerNext ==
    \/ dp_Open /\ UNCHANGED <<ap_vars, hp_vars, wf_vars, om_vars, ts_vars, mg_vars, lg_vars, lo_vars, rc_vars, wa_vars, pf_vars>>
    \/ dp_Next /\ UNCHANGED <<ap_vars, hp_vars, wf_vars, om_vars, ts_vars, mg_vars, lg_vars, lo_vars, rc_vars, wa_vars, pf_vars>>
    \/ dp_NextDone /\ UNCHANGED <<ap_vars, hp_vars, wf_vars, om_vars, ts_vars, mg_vars, lg_vars, lo_vars, rc_vars, wa_vars, pf_vars>>
    \/ dp_Previous /\ UNCHANGED <<ap_vars, hp_vars, wf_vars, om_vars, ts_vars, mg_vars, lg_vars, lo_vars, rc_vars, wa_vars, pf_vars>>
    \/ dp_Return /\ UNCHANGED <<ap_vars, hp_vars, wf_vars, om_vars, ts_vars, mg_vars, lg_vars, lo_vars, rc_vars, wa_vars, pf_vars>>

SpecPicker == PickerInit /\ [][PickerNext]_vars

\* the script runs to its end: no click is withheld forever
FairSpecPicker == SpecPicker /\ WF_vars(PickerNext)

MenuInit == om_Init /\ dp_Idle /\ ap_Idle /\ hp_Idle /\ wf_Idle /\ ts_Idle /\ mg_Idle /\ lg_Idle /\ lo_Idle /\ rc_Idle /\ wa_Idle /\ pf_Idle

MenuNext ==
    \/ om_Call /\ UNCHANGED <<dp_vars, ap_vars, hp_vars, wf_vars, ts_vars, mg_vars, lg_vars, lo_vars, rc_vars, wa_vars, pf_vars>>
    \/ om_FollowLink /\ UNCHANGED <<dp_vars, ap_vars, hp_vars, wf_vars, ts_vars, mg_vars, lg_vars, lo_vars, rc_vars, wa_vars, pf_vars>>

SpecMenu == MenuInit /\ [][MenuNext]_vars

ManageInit == mg_Init /\ dp_Idle /\ ap_Idle /\ hp_Idle /\ wf_Idle /\ om_Idle /\ ts_Idle /\ lg_Idle /\ lo_Idle /\ rc_Idle /\ wa_Idle /\ pf_Idle

ManageNext ==
    \/ mg_Teacher /\ UNCHANGED <<dp_vars, ap_vars, hp_vars, wf_vars, om_vars, ts_vars, lg_vars, lo_vars, rc_vars, wa_vars, pf_vars>>
    \/ mg_Lambda /\ UNCHANGED <<dp_vars, ap_vars, hp_vars, wf_vars, om_vars, ts_vars, lg_vars, lo_vars, rc_vars, wa_vars, pf_vars>>
    \/ mg_Method /\ UNCHANGED <<dp_vars, ap_vars, hp_vars, wf_vars, om_vars, ts_vars, lg_vars, lo_vars, rc_vars, wa_vars, pf_vars>>
    \/ mg_Change /\ UNCHANGED <<dp_vars, ap_vars, hp_vars, wf_vars, om_vars, ts_vars, lg_vars, lo_vars, rc_vars, wa_vars, pf_vars>>
    \/ mg_Forward /\ UNCHANGED <<dp_vars, ap_vars, hp_vars, wf_vars, om_vars, ts_vars, lg_vars, lo_vars, rc_vars, wa_vars, pf_vars>>
    \/ mg_DeleteReading /\ UNCHANGED <<dp_vars, ap_vars, hp_vars, wf_vars, om_vars, ts_vars, lg_vars, lo_vars, rc_vars, wa_vars, pf_vars>>

SpecManage == ManageInit /\ [][ManageNext]_vars

LoginInit == lg_Init /\ dp_Idle /\ ap_Idle /\ hp_Idle /\ wf_Idle /\ om_Idle /\ ts_Idle /\ mg_Idle /\ lo_Idle /\ rc_Idle /\ wa_Idle /\ pf_Idle

LoginNext ==
    \/ lg_Open /\ UNCHANGED <<dp_vars, ap_vars, hp_vars, wf_vars, om_vars, ts_vars, mg_vars, lo_vars, rc_vars, wa_vars, pf_vars>>
    \/ lg_Credentials /\ UNCHANGED <<dp_vars, ap_vars, hp_vars, wf_vars, om_vars, ts_vars, mg_vars, lo_vars, rc_vars, wa_vars, pf_vars>>
    \/ lg_Reset /\ UNCHANGED <<dp_vars, ap_vars, hp_vars, wf_vars, om_vars, ts_vars, mg_vars, lo_vars, rc_vars, wa_vars, pf_vars>>
    \/ lg_AcceptContract /\ UNCHANGED <<dp_vars, ap_vars, hp_vars, wf_vars, om_vars, ts_vars, mg_vars, lo_vars, rc_vars, wa_vars, pf_vars>>
    \/ lg_Return /\ UNCHANGED <<dp_vars, ap_vars, hp_vars, wf_vars, om_vars, ts_vars, mg_vars, lo_vars, rc_vars, wa_vars, pf_vars>>

SpecLogin == LoginInit /\ [][LoginNext]_vars

LogoutInit == lo_Init /\ dp_Idle /\ ap_Idle /\ hp_Idle /\ wf_Idle /\ om_Idle /\ ts_Idle /\ mg_Idle /\ lg_Idle /\ rc_Idle /\ wa_Idle /\ pf_Idle

LogoutNext ==
    \/ lo_Dispatch /\ UNCHANGED <<dp_vars, ap_vars, hp_vars, wf_vars, om_vars, ts_vars, mg_vars, lg_vars, rc_vars, wa_vars, pf_vars>>
    \/ lo_TutorLogout /\ UNCHANGED <<dp_vars, ap_vars, hp_vars, wf_vars, om_vars, ts_vars, mg_vars, lg_vars, rc_vars, wa_vars, pf_vars>>
    \/ lo_AccountsLogout /\ UNCHANGED <<dp_vars, ap_vars, hp_vars, wf_vars, om_vars, ts_vars, mg_vars, lg_vars, rc_vars, wa_vars, pf_vars>>

SpecLogout == LogoutInit /\ [][LogoutNext]_vars

CalendarInit == rc_Init /\ dp_Idle /\ ap_Idle /\ hp_Idle /\ wf_Idle /\ om_Idle /\ ts_Idle /\ mg_Idle /\ lg_Idle /\ lo_Idle /\ wa_Idle /\ pf_Idle

CalendarNext ==
    \/ rc_Open /\ UNCHANGED <<dp_vars, ap_vars, hp_vars, wf_vars, om_vars, ts_vars, mg_vars, lg_vars, lo_vars, wa_vars, pf_vars>>
    \/ rc_ClickRight /\ UNCHANGED <<dp_vars, ap_vars, hp_vars, wf_vars, om_vars, ts_vars, mg_vars, lg_vars, lo_vars, wa_vars, pf_vars>>
    \/ rc_ClickLeft /\ UNCHANGED <<dp_vars, ap_vars, hp_vars, wf_vars, om_vars, ts_vars, mg_vars, lg_vars, lo_vars, wa_vars, pf_vars>>
    \/ rc_LoopExit /\ UNCHANGED <<dp_vars, ap_vars, hp_vars, wf_vars, om_vars, ts_vars, mg_vars, lg_vars, lo_vars, wa_vars, pf_vars>>

SpecCalendar == CalendarInit /\ [][CalendarNext]_vars

\* the script runs to its end: no click is withheld forever
FairSpecCalendar == SpecCalendar /\ WF_vars(CalendarNext)

WaitInit == wa_Init /\ dp_Idle /\ ap_Idle /\ hp_Idle /\ wf_Idle /\ om_Idle /\ ts_Idle /\ mg_Idle /\ lg_Idle /\ lo_Idle /\ rc_Idle /\ pf_Idle

WaitNext ==
    \/ wt_Change /\ UNCHANGED <<dp_vars, ap_vars, hp_vars, wf_vars, om_vars, ts_vars, mg_vars, lg_vars, lo_vars, rc_vars, pf_vars>>
    \/ aa_Lower /\ UNCHANGED <<dp_vars, ap_vars, hp_vars, wf_vars, om_vars, ts_vars, mg_vars, lg_vars, lo_vars, rc_vars, pf_vars>>
    \/ aa_Found /\ UNCHANGED <<dp_vars, ap_vars, hp_vars, wf_vars, om_vars, ts_vars, mg_vars, lg_vars, lo_vars, rc_vars, pf_vars>>
    \/ aa_Absent /\ UNCHANGED <<dp_vars, ap_vars, hp_vars, wf_vars, om_vars, ts_vars, mg_vars, lg_vars, lo_vars, rc_vars, pf_vars>>
    \/ aa_Type /\ UNCHANGED <<dp_vars, ap_vars, hp_vars, wf_vars, om_vars, ts_vars, mg_vars, lg_vars, lo_vars, rc_vars, pf_vars>>
    \/ aa_Answer /\ UNCHANGED <<dp_vars, ap_vars, hp_vars, wf_vars, om_vars, ts_vars, mg_vars, lg_vars, lo_vars, rc_vars, pf_vars>>

SpecWait == WaitInit /\ [][WaitNext]_vars

ForecastInit == pf_Init /\ dp_Idle /\ ap_Idle /\ hp_Idle /\ wf_Idle /\ om_Idle /\ ts_Idle /\ mg_Idle /\ lg_Idle /\ lo_Idle /\ rc_Idle /\ wa_Idle

ForecastNext ==
    \/ pf_MenuItem /\ UNCHANGED <<dp_vars, ap_vars, hp_vars, wf_vars, om_vars, ts_vars, mg_vars, lg_vars, lo_vars, rc_vars, wa_vars>>
    \/ pf_Attempt /\ UNCHANGED <<dp_vars, ap_vars, hp_vars, wf_vars, om_vars, ts_vars, mg_vars, lg_vars, lo_vars, rc_vars, wa_vars>>
    \/ pf_Return /\ UNCHANGED <<dp_vars, ap_vars, hp_vars, wf_vars, om_vars, ts_vars, mg_vars, lg_vars, lo_vars, rc_vars, wa_vars>>

SpecForecast == ForecastInit /\ [][ForecastNext]_vars

\* the call runs on: no pass of the loop is withheld forever
FairSpecForecast == SpecForecast /\ WF_vars(ForecastNext)

TutorInit == ts_Init /\ dp_Idle /\ ap_Idle /\ hp_Idle /\ wf_Idle /\ om_Idle /\ mg_Idle /\ lg_Idle /\ lo_Idle /\ rc_Idle /\ wa_Idle /\ pf_Idle

TutorNext ==
    \/ ts_Read /\ UNCHANGED <<dp_vars, ap_vars, hp_vars, wf_vars, om_vars, mg_vars, lg_vars, lo_vars, rc_vars, wa_vars, pf_vars>>
    \/ ts_LoopNegative /\ UNCHANGED <<dp_vars, ap_vars, hp_vars, wf_vars, om_vars, mg_vars, lg_vars, lo_vars, rc_vars, wa_vars, pf_vars>>
    \/ ts_LoopPositive /\ UNCHANGED <<dp_vars, ap_vars, hp_vars, wf_vars, om_vars, mg_vars, lg_vars, lo_vars, rc_vars, wa_vars, pf_vars>>
    \/ ts_Return /\ UNCHANGED <<dp_vars, ap_vars, hp_vars, wf_vars, om_vars, mg_vars, lg_vars, lo_vars, rc_vars, wa_vars, pf_vars>>

SpecTutor == TutorInit /\ [][TutorNext]_vars

(***************************************************************************)
(* Properties of adjust_date_picker                                        *)
(***************************************************************************)
\* C2: when adjust_date_picker returns, the picker shows exactly the month
\* and year of the target date, whatever it showed at first and whatever
\* today is.
C2_LandsOnTarget ==
    dp_pc = "done" => ReadHeader(current) = new_date

\* C3: adjust_date_picker terminates, and it never issues more next/previous
\* clicks than there are months between the month first shown and the
\* target month.
C3_BoundedClicks ==
    /\ [](dp_clicks <= MonthDelta(ReadHeader(current0), new_date))
    /\ <>(dp_pc = "done")

\* a call that has returned after rotating the picker by several months
C3_Witness ==
    /\ dp_pc = "done"
    /\ dp_clicks >= 2
    /\ MonthDelta(ReadHeader(current0), new_date) > dp_clicks

(***************************************************************************)
(* Properties of assign_periods                                            *)
(***************************************************************************)
\* the period has a row on the form whose open and due date have been picked
\* and whose open and due time have been typed where the value gives one
PeriodSet(f, p, value) ==
    /\ p \in Range(f.rows)
    /\ f.open_date[p] # Unset
    /\ f.due_date[p] # Unset
    /\ Truthy(opens_at(value)) => f.open_time[p] # Unset
    /\ Truthy(closes_at(value)) => f.due_time[p] # Unset

\* C1: without the 'all' key assign_periods ends in one of two ways: every
\* period named in the mapping has its open and close date (and time, when
\* given) set, or ValueError is raised because no name matched a row; it
\* never returns with a named period left unset.
C1_AllNamedSetOrRaises ==
    (ap_pc \in {"returned", "ValueError"} /\ "all" \notin DOMAIN periods) =>
        \/ /\ ap_pc = "returned"
           /\ \A p \in DOMAIN periods : PeriodSet(form, p, periods[p])
        \/ /\ ap_pc = "ValueError"
           /\ DOMAIN periods \cap Range(form.rows) = {}

\* C20: after assign_periods without the 'all' key returns normally, the
\* checkbox of every period row of the form is checked if and only if the
\* row's label is a key of periods, whatever the checkboxes were before.
C20_CheckedIffNamed ==
    (ap_pc = "returned" /\ "all" \notin DOMAIN periods) =>
        \A row \in Range(form.rows) :
            row \in form.checked <=> row \in DOMAIN periods

\* a call that has unchecked a row it found checked and checked a row it
\* found unchecked
C20_Witness ==
    /\ ap_pc = "returned"
    /\ "all" \notin DOMAIN periods
    /\ \E row \in Range(form.rows) :
          row \in form0.checked /\ row \notin DOMAIN periods /\ row \notin form.checked
    /\ \E row \in Range(form.rows) :
          row \notin form0.checked /\ row \in DOMAIN periods /\ row \in form.checked

\* the keys of periods whose fields assign_periods works on
Processed ==
    IF "all" \in DOMAIN periods THEN {"all"} ELSE DOMAIN periods \cap Range(form.rows)

\* the four fields of a row, or of the collective panel, are as they were
FieldsUntouched(p) ==
    /\ form.open_date[p] = form0.open_date[p]
    /\ form.due_date[p] = form0.due_date[p]
    /\ form.open_time[p] = form0.open_time[p]
    /\ form.due_time[p] = form0.due_time[p]

\* C21: assign_periods writes a time field only for a side given as a
\* (date, time) pair: for every period (or 'all') whose open or close side
\* is a bare date string the open or due time field is left unchanged,
\* while the date field of both sides is always set.
C21_TimeOnlyForPairs ==
    ap_pc = "returned" =>
        \A p \in Processed :
            /\ ~IsTuple(periods[p][1]) => form.open_time[p] = form0.open_time[p]
            /\ ~IsTuple(periods[p][2]) => form.due_time[p] = form0.due_time[p]
            /\ form.open_date[p] # Unset
            /\ form.due_date[p] # Unset

\* a period row given a bare open date and a (date, time) due side
C21_Witness ==
    /\ ap_pc = "returned"
    /\ \E p \in Processed :
          /\ p # "all"
          /\ ~IsTuple(periods[p][1])
          /\ IsTuple(periods[p][2])
          /\ form.open_time[p] = Unset
          /\ form.due_time[p] # Unset
          /\ form.open_date[p] # Unset

\* C22: when periods contains the key 'all', assign_periods uses only the
\* collective panel: it sets the collective open and due dates (and times,
\* when given) from periods['all'], ignores every other key, toggles no
\* period checkbox, and never raises 'No periods matched'.
C22_AllUsesCollectivePanel ==
    ("all" \in DOMAIN periods /\ ap_pc \in {"returned", "ValueError"}) =>
        /\ ap_pc = "returned"
        /\ form.radio = "hide-periods-radio"
        /\ form.open_date["all"] # Unset
        /\ form.due_date["all"] # Unset
        /\ Truthy(opens_at(periods["all"])) => form.open_time["all"] # Unset
        /\ Truthy(closes_at(periods["all"])) => form.due_time["all"] # Unset
        /\ form.checked = form0.checked
        /\ \A row \in Range(form.rows) : FieldsUntouched(row)

\* 'all' given together with the name of a row that was and stays unchecked
C22_Witness ==
    /\ ap_pc = "returned"
    /\ "all" \in DOMAIN periods
    /\ \E row \in Range(form.rows) :
          row \in DOMAIN periods /\ row \notin form0.checked /\ row \notin form.checked
    /\ form.due_time["all"] # Unset

\* C23: when 'all' is absent and no row's label is a key of periods,
\* assign_periods raises ValueError('No periods matched') only after
\* visiting every row: at the raise every period row is unchecked and no
\* date or time field has been written.
C23_RaiseAfterUncheckingAll ==
    /\ ap_pc = "ValueError" =>
          /\ form.checked = {}
          /\ \A p \in Range(form.rows) \cup {"all"} : FieldsUntouched(p)
    /\ (ap_pc \in {"returned", "ValueError"} /\ "all" \notin DOMAIN periods
           /\ DOMAIN periods \cap Range(form.rows) = {}) => ap_pc = "ValueError"

\* the raise on a form of two rows, one of them found checked
C23_Witness ==
    /\ ap_pc = "ValueError"
    /\ Len(form.rows) = 2
    /\ form0.checked # {}
    /\ form.checked = {}

(***************************************************************************)
(* Properties of add_homework_problems                                     *)
(***************************************************************************)
\* the exercises the scraped catalog lists for the section, or for every
\* section of the chapter, a key targets
TargetIds(key) == Range(Available(scraped, key))

\* the keys of problems with a value of the given type
KeysOfType(type) == {i \in DOMAIN problems : problems[i].value.type = type}

\* C4: for a key whose value is 'all', every exercise the scraped catalog
\* lists for the targeted section (every section of the chapter for a 'ch'
\* key) is selected and clicked exactly once, and the key selects no
\* exercise of another section.
C4_AllSelectsWholeSection ==
    hp_pc = "done" =>
        \A i \in KeysOfType("str") :
            /\ \A e \in TargetIds(problems[i].key) :
                   e \in Range(using) /\ clicks[e] = 1
            /\ Range(resolved[i]) \subseteq TargetIds(problems[i].key)

\* a chapter key with 'all' whose chapter lists exercises in two sections, one
\* of them also selected by another key, and an exercise of another chapter
\* that stays unselected
C4_Witness ==
    /\ hp_pc = "done"
    /\ \E i \in KeysOfType("str") :
          /\ IsChapterKey(problems[i].key)
          /\ Cardinality(TargetIds(problems[i].key)) >= 2
          /\ \E e \in TargetIds(problems[i].key) : Occurrences(using, e) >= 2
    /\ \E e \in IdsOf(scraped) : clicks[e] = 0

\* C5: for a key whose value is a pair (low, high) with low <= high, for
\* every catalog the number of exercises selected for the key lies in
\* [low, high], all of them are of the targeted catalog, and none is
\* selected twice.  (Stated for the catalogs that list at least low
\* exercises for the key: no selection of the kind exists for the others.)
C5_TupleSelectsWithinRange ==
    \A i \in KeysOfType("tuple") :
        /\ (i = hp_i /\ Cardinality(TargetIds(problems[i].key)) >= problems[i].value.low)
              => hp_pc # "ValueError"
        /\ (i < hp_i) =>
              /\ Len(resolved[i]) \in problems[i].value.low .. problems[i].value.high
              /\ Range(resolved[i]) \subseteq TargetIds(problems[i].key)
              /\ Distinct(resolved[i])

C7_IntSelectsFirstN ==
    hp_pc = "done" =>
        \A i \in KeysOfType("int") :
            resolved[i] = SubSeq(Available(scraped, problems[i].key), 1,
                                 problems[i].value.v)

\* what a key with the value 'all', an integer or a list of IDs resolves to
\* on the catalog as scraped, with no other key in the mapping
ResolvedAlone(p) ==
    CASE p.value.type = "str" -> AllBranch(Available(scraped, p.key))
      [] p.value.type = "int" -> IntBranch(Available(scraped, p.key), p.value.v)
      [] p.value.type = "list" -> ListBranch(scraped, p.value.v, 1)

\* C24: in add_homework_problems the exercises resolved for one key depend
\* only on that key's value and the catalog as scraped: they are the same
\* whichever other keys are present and in whatever order the keys are
\* processed; resolving one key does not change the catalog another sees.
C24_KeysResolveIndependently ==
    hp_pc \in {"resolve", "done"} =>
        \A i \in DOMAIN problems :
            (i < hp_i /\ problems[i].value.type \in {"str", "int", "list"}) =>
                resolved[i] = ResolvedAlone(problems[i])

(***************************************************************************)
(* Properties of the add workflows                                         *)
(***************************************************************************)
\* the workflow has returned at the checkpoint tag
HaltedAt(tag) ==
    wf_pc = "returned" /\ break_point = tag /\ tag \in Checkpoints(kind)

Done(event) == event \in Range(log)

TitleTyped == Done("reading-title")

DescriptionTyped == Done("assignment-description")

\* no period row, date or time has been touched
PeriodsUntouched == form = form0 /\ ap_pc = "call" /\ ~Done("periods")

\* no section, exercise or URL has been chosen or typed
NothingChosen ==
    /\ ~Done("select_sections")
    /\ ~Done("Add Readings")
    /\ ~Done("external-url")
    /\ ~Done("feedback-select")
    /\ hp_pc \in {"call", "idle"}
    /\ hp_pc = "call" => \A e \in ExerciseIds : clicks[e] = 0

\* no publish, save, cancel, delete or confirmation control has been clicked
StatusUntouched == Range(log) \cap {"-publish", "-save", "Cancel", "Delete", "ok"} = {}

\* C8: a workflow that returns at a checkpoint has written no form field of
\* a later step: at 'title' nothing is typed; at 'description' only the
\* title; at 'period' no period row, date or time is touched; at 'section',
\* 'exercise' or 'url' no section, exercise or URL is chosen or typed; at
\* 'status' no publish, draft, cancel or delete control is clicked.
C8_NothingBeyondCheckpoint ==
    /\ HaltedAt(BEFORE_TITLE) =>
          ~TitleTyped /\ ~DescriptionTyped /\ PeriodsUntouched /\ NothingChosen
          /\ StatusUntouched
    /\ HaltedAt(BEFORE_DESCRIPTION) =>
          ~DescriptionTyped /\ PeriodsUntouched /\ NothingChosen /\ StatusUntouched
    /\ HaltedAt(BEFORE_PERIOD) =>
          PeriodsUntouched /\ NothingChosen /\ StatusUntouched
    /\ (\/ HaltedAt(BEFORE_SECTION_SELECT)
        \/ HaltedAt(BEFORE_EXERCISE_SELECT)
        \/ HaltedAt(BEFORE_URL)) =>
          NothingChosen /\ StatusUntouched
    /\ HaltedAt(BEFORE_READING_SELECT) => ~Done("Add Readings") /\ StatusUntouched
    /\ HaltedAt(BEFORE_STATUS_SELECT) => StatusUntouched

\* add_new_homework halted at 'status', with its exercises and feedback chosen
C8_Witness ==
    /\ HaltedAt(BEFORE_STATUS_SELECT)
    /\ kind = HOMEWORK
    /\ Done("feedback-select")
    /\ \E e \in ExerciseIds : clicks[e] = 1

\* C9 as stated: a workflow given a checkpoint tag returns right after the
\* step the tag names: with 'title' the title has been entered and the
\* description has not; with 'description' the description has been entered
\* and no period assigned; with 'period' the periods have been assigned and
\* no later step run.
C9_ReturnsAfterNamedStep ==
    /\ HaltedAt(BEFORE_TITLE) => TitleTyped /\ ~DescriptionTyped
    /\ HaltedAt(BEFORE_DESCRIPTION) => DescriptionTyped /\ PeriodsUntouched
    /\ HaltedAt(BEFORE_PERIOD) => ~PeriodsUntouched /\ NothingChosen /\ StatusUntouched

\* C9 as amended: a workflow given a checkpoint tag returns right before the
\* step the tag names, with every earlier step done: with 'title' the form
\* is open and no title entered; with 'description' the title is entered
\* and no description; with 'period' the description is entered and no
\* period assigned; with 'section', 'exercise' or 'url' the periods are
\* assigned and no section, exercise or URL chosen; with 'status' the kind's
\* own step is done and no status control clicked.
C9_ReturnsBeforeNamedStep ==
    /\ HaltedAt(BEFORE_TITLE) => Done(AddLink(kind)) /\ ~TitleTyped
    /\ HaltedAt(BEFORE_DESCRIPTION) => TitleTyped /\ ~DescriptionTyped
    /\ HaltedAt(BEFORE_PERIOD) => TitleTyped /\ DescriptionTyped /\ PeriodsUntouched
    /\ HaltedAt(BEFORE_SECTION_SELECT) =>
          DescriptionTyped /\ ap_pc = "returned" /\ Done("reading-select")
          /\ ~Done("select_sections")
    /\ HaltedAt(BEFORE_EXERCISE_SELECT) =>
          DescriptionTyped /\ ap_pc = "returned" /\ hp_pc = "call"
    /\ HaltedAt(BEFORE_URL) =>
          DescriptionTyped /\ ap_pc = "returned" /\ ~Done("external-url")
    /\ HaltedAt(BEFORE_READING_SELECT) =>
          Done("select_sections") /\ ~Done("Add Readings")
    /\ HaltedAt(BEFORE_STATUS_SELECT) =>
          /\ ap_pc = "returned"
          /\ kind = READING => Done("Add Readings")
          /\ kind = HOMEWORK => hp_pc = "done" /\ Done("feedback-select")
          /\ kind = EXTERNAL => Done("external-url")
          /\ StatusUntouched

\* a workflow halted at 'description' with the title entered
C9_Witness ==
    /\ HaltedAt(BEFORE_DESCRIPTION)
    /\ TitleTyped
    /\ ~DescriptionTyped

\* the tags C10 names
C10_Tags ==
    {BEFORE_TITLE, BEFORE_DESCRIPTION, BEFORE_PERIOD, BEFORE_SECTION_SELECT,
     BEFORE_URL, BEFORE_STATUS_SELECT}

\* C10 as stated: each of the four workflows, given any of the tags title,
\* description, period, section, url and status, returns early: select_status
\* is never reached and nothing is published, saved, cancelled or deleted.
C10_EveryTagHaltsEveryWorkflow ==
    (wf_pc # "idle" /\ break_point \in C10_Tags) =>
        wf_pc # "status" /\ StatusUntouched

\* C10 as amended: a workflow returns early, never reaching select_status,
\* for the tags it tests for: title, description, period and status in all
\* four, section and reading in add_new_reading, exercise in
\* add_new_homework, url in add_new_external; any other tag is ignored and
\* the workflow, unless it raises, returns only through select_status.
C10_OwnTagsHalt ==
    /\ (wf_pc # "idle" /\ break_point \in Checkpoints(kind)) =>
          wf_pc # "status" /\ StatusUntouched
    /\ (wf_pc = "returned" /\ break_point \notin Checkpoints(kind)) =>
          ~StatusUntouched

\* add_new_external halted at 'url' with its periods assigned
C10_Witness ==
    /\ HaltedAt(BEFORE_URL)
    /\ kind = EXTERNAL
    /\ ap_pc = "returned"
    /\ StatusUntouched

\* the steps of an add workflow of the kind, in the order of its code
StepsOf(k) ==
    <<AddLink(k), "reading-title", "assignment-description", "periods">>
    \o (CASE k = READING -> <<"reading-select", "select_sections", "Add Readings">>
          [] k = HOMEWORK -> <<"feedback-select", "feedback option">>
          [] k = EXTERNAL -> <<"external-url">>
          [] k = EVENT -> <<>>)
    \o <<"select_status">>

\* the step an entry of the log belongs to
StepOf(event) ==
    IF event \in {"option immediate", "option due_at"} THEN "feedback option" ELSE event

\* the steps logged so far, after open_assignment_menu (which clicks the
\* toggle or finds the menu open)
StepLog ==
    LET l == IF log # <<>> /\ log[1] = "sidebar-toggle" THEN Tail(log) ELSE log
    IN  [i \in DOMAIN l |-> StepOf(l[i])]

\* the controls select_status clicks
FooterControls == {"-publish", "-save", "Cancel", "Delete"}

StatusControls == FooterControls \cup {"ok"}

\* C11: an add workflow run without a breakpoint performs its steps in one
\* fixed order: menu, the kind's Add link, title, description, periods, the
\* kind's own step (sections for a reading, problems then feedback for a
\* homework, URL for an external, none for an event), then select_status,
\* which is invoked once, as the last step; no step is repeated or skipped.
C11_FixedStepOrder ==
    (wf_pc # "idle" /\ break_point = NoBreak) =>
        LET n == Len(StepsOf(kind))
        IN  /\ \A i \in DOMAIN StepLog :
                  IF i <= n THEN StepLog[i] = StepsOf(kind)[i]
                  ELSE StepLog[i] \in StatusControls
            /\ wf_pc = "returned" => Len(StepLog) >= n
            /\ wf_pc = "status" => Len(StepLog) = n - 1
            /\ kind = HOMEWORK =>
                  /\ hp_pc # "call" => Done("periods")
                  /\ Done("feedback-select") => hp_pc = "done"

\* add_new_homework run to its end: every step logged, exercises chosen
C11_Witness ==
    /\ wf_pc = "returned"
    /\ break_point = NoBreak
    /\ kind = HOMEWORK
    /\ Len(StepLog) > Len(StepsOf(kind))
    /\ \E e \in ExerciseIds : clicks[e] = 1

\* the footer control of a status
ControlOf(st) ==
    CASE st = PUBLISH -> "-publish" [] st = DRAFT -> "-save"
      [] st = CANCEL -> "Cancel" [] st = DELETE -> "Delete"

\* C12: select_status called with publish, draft, cancel or delete clicks
\* exactly one footer action control, the one matching the status, and never
\* the control of another status.
C12_OneMatchingControl ==
    Done("select_status") =>
        SelectSeq(log, LAMBDA e : e \in FooterControls) = <<ControlOf(status)>>

\* select_status has cancelled an assignment and confirmed the dialog
C12_Witness ==
    /\ Done("select_status")
    /\ status = CANCEL
    /\ Done("Cancel")
    /\ Done("ok")
    /\ wf_pc = "returned"

\* C16: add_new_homework selects the 'immediate' feedback option when its
\* feedback argument is 'immediate' and the 'due_at' option for any other
\* value.
C16_OptionFollowsArgument ==
    Done("feedback-select") =>
        /\ feedback = "immediate" => Done("option immediate") /\ ~Done("option due_at")
        /\ feedback # "immediate" => Done("option due_at") /\ ~Done("option immediate")

\* C18: in select_status the confirmation is best-effort for cancel and
\* mandatory for delete: a confirmation button that never becomes visible is
\* ignored with status cancel, and select_status returns normally; with
\* status delete the wait raises.
C18_ConfirmationCancelVsDelete ==
    (Done("select_status") /\ ~dialog) =>
        /\ ~Done("ok")
        /\ status = CANCEL => wf_pc = "returned" /\ Done("Cancel")
        /\ status = DELETE => wf_pc = "raised" /\ Done("Delete")

\* select_status has clicked Delete and the confirmation never showed
C18_Witness ==
    /\ Done("select_status")
    /\ status = DELETE
    /\ ~dialog
    /\ wf_pc = "raised"
    /\ Done("Delete")

(***************************************************************************)
(* Properties of open_assignment_menu                                      *)
(***************************************************************************)
\* the calls of open_assignment_menu recorded so far
MenuCalls == {i \in DOMAIN om_hist : om_hist[i].op = "open_assignment_menu"}

\* C19: open_assignment_menu clicks the sidebar toggle exactly when the menu
\* is closed (toggle background not gray): after any call the menu is open,
\* a call on an open menu performs no click, and of two consecutive calls
\* at most one clicks.
C19_ClicksIffClosed ==
    \A i \in MenuCalls :
        /\ om_hist[i].clicked <=> ~IsGray(om_hist[i].before)
        /\ IsGray(om_hist[i].after)
        /\ (i + 1) \in MenuCalls => ~(om_hist[i].clicked /\ om_hist[i + 1].clicked)

\* two consecutive calls, the first on a closed menu
C19_Witness ==
    \E i \in MenuCalls :
        /\ (i + 1) \in MenuCalls
        /\ om_hist[i].clicked
        /\ ~om_hist[i + 1].clicked

mg_Ended == mg_pc \notin {"idle", "call", "lambda", "function", "body"}

\* C13: deleting works for all four kinds: remove[kind], as called by
\* Teacher.delete_assignment with the title and the dated periods of an
\* assignment, does not fail before reaching the browser, and runs the
\* calendar delete flow (month of the due date, the assignment, delete,
\* confirm) when the calendar lists the assignment.
C13_DeleteReachesBrowser ==
    (mg_op = "remove" /\ mg_Ended /\ "title" \in mg_args /\ mg_periods = "dated") =>
        /\ mg_log # <<>>
        /\ mg_page.listed =>
              /\ mg_pc = "returned"
              /\ {"get month", "assignment", "delete-link", "Yes"} \subseteq Range(mg_log)

PastCheck == lg_pc \in {"LoginError", "reset", "terms", "returned"}

C26_ToggleIffCollapsed ==
    [][(lg_pc = "call" /\ IsTutorUrl(lg_url) /\ lg_width <= CONDENSED_WIDTH) =>
          ("navbar-toggle" \in Range(lg_log') <=> lg_collapsed)]_vars

(***************************************************************************)
(* Properties of User.logout                                               *)
(***************************************************************************)
\* C25: logout chooses its flow from the current URL: the Tutor logout when
\* the URL contains 'tutor', otherwise the Accounts logout when it contains
\* 'accounts', otherwise the Exercises logout when it contains 'exercises';
\* it raises HTTPError('Not an OpenStax URL') exactly when the URL contains
\* none of the three, and runs the flow for every URL containing one.
C25_FlowFollowsUrl ==
    lo_pc \notin {"idle", "call"} =>
        /\ lo_pc = "HTTPError" <=> lo_url = {}
        /\ "tutor" \in lo_url => lo_flow = "tutor_logout"
        /\ ("tutor" \notin lo_url /\ "accounts" \in lo_url) => lo_flow = "accounts_logout"
        /\ lo_url = {"exercises"} => lo_flow = "execises_logout"

(***************************************************************************)
(* Properties of Teacher.rotate_calendar                                   *)
(***************************************************************************)
\* C27: for every month and year the teacher calendar shows and every
\* target date, rotate_calendar terminates with the calendar showing the
\* target's month and year, by single-month forward and back clicks, and
\* clicks nothing when the calendar already shows the target month.
C27_CalendarLandsOnTarget ==
    /\ [](rc_pc = "done" =>
            /\ get_month_year(rc_header) = rc_target
            /\ get_month_year(rc_header0) = rc_target =>
                  rc_clicks["fa-caret-right"] + rc_clicks["fa-caret-left"] = 0)
    /\ [][MonthDelta(get_month_year(rc_header), get_month_year(rc_header')) <= 1]_vars
    /\ <>(rc_pc = "done")

\* a rotation from a later year and an earlier month: forward first, then
\* back through December
C27_Witness ==
    /\ rc_pc = "done"
    /\ get_month_year(rc_header0).year > rc_target.year
    /\ get_month_year(rc_header0).month < rc_target.month
    /\ rc_clicks["fa-caret-right"] > 0
    /\ rc_clicks["fa-caret-left"] > 0

(***************************************************************************)
(* Properties of change_wait_time and answer_assessment                    *)
(***************************************************************************)
\* the three waits agree
Consistent(w) == w.wait_time = w.implicitly_wait /\ w.wait_time = w.wait

C30_ForecastWaitBounded ==
    /\ [](/\ pf_attempts <= 10
          /\ \A k \in 1 .. pf_attempts - 1 : ~Visible(pf_page, k)
          /\ pf_pc = "TimeoutException" => pf_attempts = 0)
    /\ [](pf_pc = "loop" => <>(pf_pc = "returned"))
    /\ <>(pf_pc \in {"returned", "TimeoutException"})

\* the call returned after ten attempts that all timed out
C30_Witness ==
    /\ pf_pc = "returned"
    /\ pf_attempts = 10
    /\ ~Visible(pf_page, 10)

====
